---- MODULE Spec2Model ----
(***************************************************************************)
(* Verification model of blazskufca/dns_server_in_go: the response cache   *)
(* (internal/cache), the datagram dispatcher and the recursive resolver    *)
(* (app), modelled as state machines from the Go sources.                  *)
(*                                                                         *)
(* Three specifications share this module:                                 *)
(*   SpecCache   - DNSCache.Get / Put / cleanup called by concurrent       *)
(*                 goroutines, with the sync.RWMutex made explicit;        *)
(*   SpecServer  - DNSServer.Start's accept loop and the handleDNSRequest  *)
(*                 goroutines it spawns;                                   *)
(*   SpecWalk    - one resolveRecursively call tree (the iterative walk,   *)
(*                 CNAME following), with the nameservers as environment.  *)
(***************************************************************************)
EXTENDS Integers, Sequences, FiniteSets, TLC

(***************************************************************************)
(* Generic helpers                                                         *)
(***************************************************************************)
Min(a, b) == IF a < b THEN a ELSE b

Range(s) == {s[i] : i \in 1..Len(s)}

\* DNS_Type
TypeA == 1
TypeNS == 2
TypeCNAME == 5
TypeSOA == 6
TypeTXT == 16

\* the name the clients ask for
QName == "a.test"

\* cacheKey := fmt.Sprintf("%s:%d", domain, questionType)
CacheKey(domain, questionType) == <<domain, questionType>>

(***************************************************************************)
(* ---------------------------  THE CACHE  ------------------------------- *)
(***************************************************************************)

\* maxCacheTTL := 1 * time.Hour, in seconds
MaxCacheTTL == 3600

\* uint32(math.MaxUint32), the start value of the minimum-TTL scan in Put;
\* the checker's integers are 32-bit signed, so the largest of them stands
\* for it (every TTL of the model is far below both)
MaxUint32 == 2147483647

\* Bound: the clock is observed at 1..SmallClock and again at the same
\* offsets after one hour.
SmallClock == 2

\* time.Time{} : the expiry of a map slot that has not been written yet
ZeroTime == 0

\* The instants at which time.Now() is observed (seconds).
ClockValues == (1..SmallClock) \cup {MaxCacheTTL + t : t \in 1..SmallClock}

Callers == {"g1", "g2"}

Keys == {CacheKey(QName, TypeA)}

NoCaller == "none"

\* *Message.Message as the cache sees it: nil-ness, Header.QDCOUNT and the
\* TTLs of the answer records.
CacheMsg(isNil, qd, ttls) == [isNil |-> isNil, QDCOUNT |-> qd, Answers |-> ttls]

NilMsg == CacheMsg(TRUE, 0, <<>>)

CacheMessages ==
    { NilMsg,
      CacheMsg(FALSE, 1, <<>>),
      CacheMsg(FALSE, 1, <<0>>),
      CacheMsg(FALSE, 0, <<2>>),
      CacheMsg(FALSE, 1, <<2, 1>>),
      CacheMsg(FALSE, 1, <<7200, 3601>>) }

VARIABLES
    now,        \* time.Now()
    cache,      \* DNSCache.cache : map[string]cachedResponse
    mu,         \* DNSCache.mu : [writer, readers]
    cpc,        \* per goroutine: position inside Get / Put
    cargs,      \* per goroutine: arguments and locals of the running call
    cres,       \* per goroutine: what the last Get returned and the entry it read
    spc,        \* position of the cleanup goroutine
    lastWrite,  \* history: per key, the pair the last completed Put wrote and when
    putLog      \* history: per key, the last Put call with answers and TTL > 0

cacheVars == <<now, cache, mu, cpc, cargs, cres, spc, lastWrite, putLog>>

\* the cache's variables other than the map
cacheRest == <<now, mu, cpc, cargs, cres, spc, lastWrite, putLog>>

VARIABLES
    recursive,  \* DNSServer.recursive
    conn,       \* per handler: the transport its request came in on
    hup,        \* per handler: the reply forwardToResolver(TCP) got, or NoReply
    buf,        \* Start's receive buffer: the bytes of the last datagram read
    hpc,        \* per handler goroutine: position inside handleDNSRequest
    hmsg,       \* per handler: msg, the decoded request
    hresp,      \* per handler: resp, a pointer to a message, or NoObj
    hhit,       \* per handler: resp came out of the cache
    hcode,      \* per handler: the errorCode handed to sendErrorResponse
    recv,       \* history: the datagram that was read for this handler
    sent,       \* per handler: the datagrams written to its client
    heap        \* the messages that pointers point to

serverVars == <<recursive, conn, hup, buf, hpc, hmsg, hresp, hhit, hcode, recv, sent, heap>>

VARIABLES
    net,        \* the nameservers: a zone tree, or servers that refer on for ever
    roots,      \* DNSServer.rootServers
    serving,    \* Start has left bootstrap behind and the accept loops run
    stack,      \* the resolveRecursively activations, the running one last
    ret,        \* what the activation that just returned hands to its caller
    nsLog       \* history: the call of queryNameserver the last step made, or
                \* that the last step was a cache hit

walkVars == <<net, roots, serving, stack, ret, nsLog>>

VARIABLES
    fn,         \* the function of the wire codec that was called last
    arg,        \* the arguments of that call
    out,        \* what the call returned
    dec         \* the locals of a running utils.UnmarshalName

codecVars == <<fn, arg, out, dec>>

VARIABLES
    wg,         \* DNSServer.wg : the counter of the sync.WaitGroup
    task,       \* per request: not yet read, handled by a goroutine (by transport), or done
    life        \* the positions of Start, of startTCPServer and of cleanup

lifeVars == <<wg, task, life>>

NoArgs == [op |-> "none", key |-> CacheKey("", 0), msg |-> NilMsg, ttl |-> 0, t0 |-> 0]

NoRes == [found |-> FALSE, entry |-> [message |-> NilMsg, expiresAt |-> ZeroTime],
          message |-> NilMsg]

NoLog == [valid |-> FALSE, msg |-> NilMsg, at |-> 0]

NoWrite == [valid |-> FALSE, message |-> NilMsg, expiresAt |-> ZeroTime, at |-> 0]

RECURSIVE MinTTLFrom(_, _)
\* the scan of Put: minTTL starts at MaxUint32 and is lowered by each answer
MinTTLFrom(ttls, acc) ==
    IF ttls = <<>> THEN acc
    ELSE MinTTLFrom(Tail(ttls), IF Head(ttls) < acc THEN Head(ttls) ELSE acc)

MinTTL(msg) == MinTTLFrom(msg.Answers, MaxUint32)

\* Put without the "don't cache if TTL is 0" return
PutSkipsKeepsZeroTTL(msg) ==
    \/ msg.isNil
    \/ Len(msg.Answers) = 0
    \/ msg.QDCOUNT = 0

\* Put's early returns (lines 109-111 and 122-124)
PutSkips(msg) ==
    \/ msg.isNil
    \/ Len(msg.Answers) = 0
    \/ msg.QDCOUNT = 0
    \/ MinTTL(msg) = 0

\* cacheTTL without the one-hour ceiling
CacheTTLUncapped(msg) == MinTTL(msg)

\* cacheTTL: the minimum answer TTL, capped at one hour
CacheTTL(msg) ==
    IF MinTTL(msg) > MaxCacheTTL THEN MaxCacheTTL ELSE MinTTL(msg)

InitCache ==
    /\ now = 1
    /\ cache = <<>>
    /\ mu = [writer |-> NoCaller, readers |-> {}]
    /\ cpc = [c \in Callers |-> "idle"]
    /\ cargs = [c \in Callers |-> NoArgs]
    /\ cres = [c \in Callers |-> NoRes]
    /\ spc = "idle"
    /\ lastWrite = [k \in Keys |-> NoWrite]
    /\ putLog = [k \in Keys |-> NoLog]

\* time passes
Tick ==
    /\ \E t \in ClockValues : t > now /\ now' = t
    /\ UNCHANGED <<cache, mu, cpc, cargs, cres, spc, lastWrite, putLog,
                   serverVars, walkVars, codecVars, lifeVars>>

\* sync.RWMutex
\* a writer that has announced itself (the cleanup goroutine inside Lock)
\* keeps later writers and later readers out
CanLock == mu.writer = NoCaller /\ mu.readers = {} /\ spc # "lock"

CanRLock == mu.writer = NoCaller /\ spc # "lock"

MapSet(m, k, v) == [x \in (DOMAIN m) \cup {k} |-> IF x = k THEN v ELSE m[x]]

MapDelete(m, ks) == [x \in (DOMAIN m) \ ks |-> m[x]]

\* Put, lines 108-131: the checks and the TTL computation, before the lock
PutCall(c, k, msg) ==
    /\ cpc[c] = "idle"
    /\ cargs' = [cargs EXCEPT ![c] =
                    [op |-> "put", key |-> k, msg |-> msg,
                     ttl |-> IF PutSkips(msg) THEN 0 ELSE CacheTTL(msg), t0 |-> 0]]
    /\ cpc' = [cpc EXCEPT ![c] = IF PutSkips(msg) THEN "put_return" ELSE "put_lock"]
    /\ putLog' = IF ~msg.isNil /\ Len(msg.Answers) > 0 /\ MinTTL(msg) > 0 /\ PutSkips(msg)
                 THEN [putLog EXCEPT ![k] = [valid |-> TRUE, msg |-> msg, at |-> now]]
                 ELSE putLog
    /\ UNCHANGED <<now, cache, mu, cres, spc, lastWrite, serverVars, walkVars, codecVars, lifeVars>>

\* Put, line 133: c.mu.Lock()
PutLock(c) ==
    /\ cpc[c] = "put_lock"
    /\ CanLock
    /\ mu' = [mu EXCEPT !.writer = c]
    /\ cpc' = [cpc EXCEPT ![c] = "put_store"]
    /\ UNCHANGED <<now, cache, cargs, cres, spc, lastWrite, putLog, serverVars, walkVars, codecVars, lifeVars>>

\* Put, lines 136-139: time.Now() is read and the message word of the map
\* slot is written (a new slot starts zeroed)
PutStoreMessage(c) ==
    /\ cpc[c] = "put_store"
    /\ LET k == cargs[c].key
           old == IF k \in DOMAIN cache THEN cache[k].expiresAt ELSE ZeroTime
       IN  cache' = MapSet(cache, k, [message |-> cargs[c].msg, expiresAt |-> old])
    /\ cargs' = [cargs EXCEPT ![c].t0 = now]
    /\ cpc' = [cpc EXCEPT ![c] = "put_store2"]
    /\ UNCHANGED <<now, mu, cres, spc, lastWrite, putLog, serverVars, walkVars, codecVars, lifeVars>>

\* Put, lines 136-139: the expiresAt words of the map slot are written
PutStoreExpiry(c) ==
    /\ cpc[c] = "put_store2"
    /\ LET k == cargs[c].key
           e == [message |-> cargs[c].msg, expiresAt |-> cargs[c].t0 + cargs[c].ttl]
       IN  /\ cache' = MapSet(cache, k, e)
           /\ lastWrite' = [lastWrite EXCEPT ![k] =
                  [valid |-> TRUE, message |-> e.message, expiresAt |-> e.expiresAt,
                   at |-> cargs[c].t0]]
           /\ putLog' = [putLog EXCEPT ![k] =
                  [valid |-> TRUE, msg |-> cargs[c].msg, at |-> cargs[c].t0]]
    /\ cpc' = [cpc EXCEPT ![c] = "put_unlock"]
    /\ UNCHANGED <<now, mu, cargs, cres, spc, serverVars, walkVars, codecVars, lifeVars>>

\* Put, line 134: the deferred c.mu.Unlock(), and Put returns
PutUnlock(c) ==
    /\ cpc[c] = "put_unlock"
    /\ mu' = [mu EXCEPT !.writer = NoCaller]
    /\ cpc' = [cpc EXCEPT ![c] = "idle"]
    /\ cargs' = [cargs EXCEPT ![c] = NoArgs]
    /\ UNCHANGED <<now, cache, cres, spc, lastWrite, putLog, serverVars, walkVars, codecVars, lifeVars>>

\* Put, lines 110 and 123: the early returns
PutReturn(c) ==
    /\ cpc[c] = "put_return"
    /\ cpc' = [cpc EXCEPT ![c] = "idle"]
    /\ cargs' = [cargs EXCEPT ![c] = NoArgs]
    /\ UNCHANGED <<now, cache, mu, cres, spc, lastWrite, putLog, serverVars, walkVars, codecVars, lifeVars>>

\* Get is called
GetCall(c, k) ==
    /\ cpc[c] = "idle"
    /\ cargs' = [cargs EXCEPT ![c] = [NoArgs EXCEPT !.op = "get", !.key = k]]
    /\ cpc' = [cpc EXCEPT ![c] = "get_rlock"]
    /\ UNCHANGED <<now, cache, mu, cres, spc, lastWrite, putLog, serverVars, walkVars, codecVars, lifeVars>>

\* Get entering its critical section without waiting for the writer
GetRLockUnguarded(c) ==
    /\ cpc[c] = "get_rlock"
    /\ mu' = [mu EXCEPT !.readers = @ \cup {c}]
    /\ cpc' = [cpc EXCEPT ![c] = "get_read"]
    /\ UNCHANGED <<now, cache, cargs, cres, spc, lastWrite, putLog, serverVars, walkVars, codecVars, lifeVars>>

\* Get, line 92: c.mu.RLock()
GetRLock(c) ==
    /\ cpc[c] = "get_rlock"
    /\ CanRLock
    /\ mu' = [mu EXCEPT !.readers = @ \cup {c}]
    /\ cpc' = [cpc EXCEPT ![c] = "get_read"]
    /\ UNCHANGED <<now, cache, cargs, cres, spc, lastWrite, putLog, serverVars, walkVars, codecVars, lifeVars>>

\* Get treating the instant of expiry as already expired
GetHitsExpiresEarly(found, entry, t) ==
    IF ~found THEN FALSE
    ELSE IF t >= entry.expiresAt THEN FALSE
    ELSE TRUE

\* whether Get returns the entry it read at time t (lines 95-104)
GetHits(found, entry, t) ==
    IF ~found THEN FALSE
    ELSE IF t > entry.expiresAt THEN FALSE
    ELSE TRUE

\* the value Get returns
GetResult(found, entry, t) ==
    IF GetHits(found, entry, t) THEN entry.message ELSE NilMsg

\* Get, lines 95-104: the map lookup and the expiry test
GetRead(c) ==
    /\ cpc[c] = "get_read"
    /\ LET k == cargs[c].key
           found == k \in DOMAIN cache
           entry == IF found THEN cache[k] ELSE NoRes.entry
       IN  cres' = [cres EXCEPT ![c] =
                       [found |-> found, entry |-> entry,
                        message |-> GetResult(found, entry, now)]]
    /\ cpc' = [cpc EXCEPT ![c] = "get_runlock"]
    /\ UNCHANGED <<now, cache, mu, cargs, spc, lastWrite, putLog, serverVars, walkVars, codecVars, lifeVars>>

\* Get, line 93: the deferred c.mu.RUnlock(), and Get returns
GetRUnlock(c) ==
    /\ cpc[c] = "get_runlock"
    /\ mu' = [mu EXCEPT !.readers = @ \ {c}]
    /\ cpc' = [cpc EXCEPT ![c] = "idle"]
    /\ cargs' = [cargs EXCEPT ![c] = NoArgs]
    /\ cres' = [cres EXCEPT ![c] = NoRes]
    /\ UNCHANGED <<now, cache, spc, lastWrite, putLog, serverVars, walkVars, codecVars, lifeVars>>

Sweeper == "sweeper"

\* cleanup, line 78: c.mu.Lock()
SweepLock ==
    /\ spc = "idle"
    /\ mu.writer = NoCaller
    /\ spc' = "lock"
    /\ UNCHANGED mu
    /\ UNCHANGED <<now, cache, cpc, cargs, cres, lastWrite, putLog, serverVars, walkVars, codecVars, lifeVars>>

\* cleanup, line 78: the readers that were inside have left and Lock returns
SweepLocked ==
    /\ spc = "lock"
    /\ mu.readers = {}
    /\ mu' = [mu EXCEPT !.writer = Sweeper]
    /\ spc' = "sweep"
    /\ UNCHANGED <<now, cache, cpc, cargs, cres, lastWrite, putLog, serverVars, walkVars, codecVars, lifeVars>>

\* an entry that is due at t taken for one that is past
ExpiresBeforeOrAt(entry, t) == entry.expiresAt <= t

\* an entry that is never taken to be past
ExpiresBeforeNever(entry, t) == FALSE

\* cleanup, line 83: entry.expiresAt.Before(now)
ExpiresBefore(entry, t) == entry.expiresAt < t

\* cleanup, lines 81-87: delete every entry with expiresAt.Before(now)
SweepDelete ==
    /\ spc = "sweep"
    /\ cache' = MapDelete(cache, {k \in DOMAIN cache : ExpiresBefore(cache[k], now)})
    /\ spc' = "unlock"
    /\ UNCHANGED <<now, mu, cpc, cargs, cres, lastWrite, putLog, serverVars, walkVars, codecVars, lifeVars>>

\* cleanup, line 79: the deferred c.mu.Unlock()
SweepUnlock ==
    /\ spc = "unlock"
    /\ mu' = [mu EXCEPT !.writer = NoCaller]
    /\ spc' = "idle"
    /\ UNCHANGED <<now, cache, cpc, cargs, cres, lastWrite, putLog, serverVars, walkVars, codecVars, lifeVars>>

NextCache ==
    \/ Tick
    \/ \E c \in Callers, k \in Keys, msg \in CacheMessages : PutCall(c, k, msg)
    \/ \E c \in Callers : PutLock(c)
    \/ \E c \in Callers : PutStoreMessage(c)
    \/ \E c \in Callers : PutStoreExpiry(c)
    \/ \E c \in Callers : PutUnlock(c)
    \/ \E c \in Callers : PutReturn(c)
    \/ \E c \in Callers, k \in Keys : GetCall(c, k)
    \/ \E c \in Callers : GetRLock(c)
    \/ \E c \in Callers : GetRead(c)
    \/ \E c \in Callers : GetRUnlock(c)
    \/ SweepLock
    \/ SweepLocked
    \/ SweepDelete
    \/ SweepUnlock

(***************************************************************************)
(* ----------------  MESSAGES AND THE MESSAGE CODEC  --------------------- *)
(***************************************************************************)

\* header.ResponseCode
NoError == 0
FormatError == 1
ServerFailure == 2

\* const udpDNSMessageMaxSize, and the 512 of handleDNSRequest
UdpMax == 512

\* the encoded header
HeaderSize == 12

\* header.Header{} : the zero header
ZeroHeader ==
    [ID |-> 0, QR |-> FALSE, AA |-> FALSE, TC |-> FALSE, RD |-> FALSE, RA |-> FALSE,
     RCODE |-> NoError, QDCOUNT |-> 0, ANCOUNT |-> 0, NSCOUNT |-> 0, ARCOUNT |-> 0]

\* Message.Message{}
ZeroMessage ==
    [Header |-> ZeroHeader, Questions |-> <<>>, Answers |-> <<>>,
     Authority |-> <<>>, Additional |-> <<>>]

\* a question, and the number of bytes of its encoding
Question(name, type) == [Name |-> name, Type |-> type, Size |-> 12]

\* a resource record, and the number of bytes of its encoding
Record(name, type, ttl, rdata, size) ==
    [Name |-> name, Type |-> type, TTL |-> ttl, RDATA |-> rdata, Size |-> size]

RECURSIVE SumSizes(_)
SumSizes(rs) == IF rs = <<>> THEN 0 ELSE Head(rs).Size + SumSizes(Tail(rs))

\* Message.MarshalBinary: the header as it stands, then every question and
\* record of the four slices.  The packet keeps the encoder's view of which
\* records it wrote per section; on the wire the records follow one another.
MarshalBinary(msg) ==
    [hdr |-> msg.Header, qs |-> msg.Questions, an |-> msg.Answers,
     ns |-> msg.Authority, ar |-> msg.Additional]

\* len() of an encoded packet
WireLen(pkt) ==
    HeaderSize + SumSizes(pkt.qs) + SumSizes(pkt.an) + SumSizes(pkt.ns) + SumSizes(pkt.ar)

\* the first n elements of s, or all of s when it is shorter
Take(s, n) == SubSeq(s, 1, Min(n, Len(s)))

Drop(s, n) == SubSeq(s, Min(n, Len(s)) + 1, Len(s))

\* Message.UnmarshalBinary fails when a question announced by QDCOUNT is
\* missing from the buffer
UnmarshalFails(pkt) == Len(pkt.qs) < pkt.hdr.QDCOUNT

\* Message.UnmarshalBinary: QDCOUNT questions, then up to ANCOUNT, NSCOUNT and
\* ARCOUNT records, each record loop stopping when the buffer is used up
UnmarshalBinary(pkt) ==
    LET rrs == pkt.an \o pkt.ns \o pkt.ar
        an == Take(rrs, pkt.hdr.ANCOUNT)
        rest1 == Drop(rrs, pkt.hdr.ANCOUNT)
        ns == Take(rest1, pkt.hdr.NSCOUNT)
        rest2 == Drop(rest1, pkt.hdr.NSCOUNT)
        ar == Take(rest2, pkt.hdr.ARCOUNT)
    IN  [Header |-> pkt.hdr, Questions |-> Take(pkt.qs, pkt.hdr.QDCOUNT),
         Answers |-> an, Authority |-> ns, Additional |-> ar]

\* Message.Copy: header and questions taken over, every record copied, and
\* ANCOUNT, ARCOUNT, NSCOUNT set from the copied slices
Copy(source) ==
    [source EXCEPT !.Header.ANCOUNT = Len(source.Answers),
                   !.Header.ARCOUNT = Len(source.Additional),
                   !.Header.NSCOUNT = Len(source.Authority)]

\* Message.IsNoErrWithMatchingID: response code NoError and the id asked for
IsNoErrWithMatchingID(msg, id) ==
    msg.Header.RCODE = NoError /\ msg.Header.ID = id

(***************************************************************************)
(* -------------------  THE DATAGRAM DISPATCHER  ------------------------- *)
(***************************************************************************)

\* the goroutines Start spawns; goroutine h serves the client with id h
Handlers == {1, 2}

\* the goroutines among them that startTCPServer can spawn as well
StreamHandlers == {2}

\* the transaction id the resolver's own queries carry
ResolverID == 9

ObjIds == 1..(Cardinality(Handlers) + 1)

NoObj == 0

ARecord(ttl) == Record(QName, TypeA, ttl, "1.2.3.4", 24)

\* a TXT record too large for one datagram
BigRecord == Record(QName, TypeTXT, 300, "txt", 600)

\* the EDNS pseudo-record (type 41) a client appends to its query
OptRecord == Record(".", 41, 0, "", 11)

\* the datagrams client i sends
ClientQuery(i, rd, opt, cut) ==
    [hdr |-> [ZeroHeader EXCEPT !.ID = i, !.RD = rd, !.QDCOUNT = 1,
                                !.ARCOUNT = IF opt THEN 1 ELSE 0],
     qs |-> IF cut THEN <<>> ELSE <<Question(QName, TypeA)>>,
     an |-> <<>>, ns |-> <<>>,
     ar |-> IF opt THEN <<OptRecord>> ELSE <<>>]

\* a second name a request can ask for
OtherName == "b.test"

\* a request whose header announces no question
EmptyQuery(i) ==
    [hdr |-> [ZeroHeader EXCEPT !.ID = i, !.RD = TRUE],
     qs |-> <<>>, an |-> <<>>, ns |-> <<>>, ar |-> <<>>]

\* a request with two questions
TwoQuestions(i) ==
    [hdr |-> [ZeroHeader EXCEPT !.ID = i, !.RD = TRUE, !.QDCOUNT = 2],
     qs |-> <<Question(QName, TypeA), Question(OtherName, TypeA)>>,
     an |-> <<>>, ns |-> <<>>, ar |-> <<>>]

Requests(i) ==
    { ClientQuery(i, TRUE, FALSE, FALSE),
      ClientQuery(i, TRUE, TRUE, FALSE),
      ClientQuery(i, FALSE, FALSE, FALSE),
      ClientQuery(i, TRUE, FALSE, TRUE),
      EmptyQuery(i),
      TwoQuestions(i) }

\* the requests client i sends over a stream
StreamRequests(i) ==
    { ClientQuery(i, TRUE, FALSE, FALSE),
      ClientQuery(i, TRUE, FALSE, TRUE),
      TwoQuestions(i) }

\* no reply of the upstream forwarder
NoReply == MarshalBinary(ZeroMessage)

\* the address records the upstream forwarder has for the questions it is asked
AnswersFor(questions) ==
    [j \in 1..Len(questions) |-> Record(questions[j].Name, TypeA, 300, "1.2.3.4", 24)]

\* a reply of the upstream forwarder to the query it was sent
UpstreamReply(query, id, rcode, ancount, answers) ==
    [hdr |-> [ZeroHeader EXCEPT !.ID = id, !.QR = TRUE, !.RD = TRUE, !.RA = TRUE,
                                !.RCODE = rcode, !.QDCOUNT = Len(query.Questions),
                                !.ANCOUNT = ancount],
     qs |-> query.Questions, an |-> answers, ns |-> <<>>, ar |-> <<>>]

\* a transaction id that is not the query's
StrayID(id) == id + Cardinality(Handlers)

\* the replies the upstream forwarder can give: the answers; the answers
\* with a wrong count; no data; a failure that still carries records; the
\* answers under another transaction id
UpstreamReplies(query) ==
    LET i == query.Header.ID
        good == AnswersFor(query.Questions)
    IN  { UpstreamReply(query, i, NoError, Len(good), good),
          UpstreamReply(query, i, NoError, Len(good) + 1, good),
          UpstreamReply(query, i, NoError, 0, <<>>),
          UpstreamReply(query, i, ServerFailure, Len(good), good),
          UpstreamReply(query, StrayID(i), NoError, Len(good), good) }

\* the replies considered where the recursive resolver falls back
FallbackReplies(query) ==
    LET i == query.Header.ID
        good == AnswersFor(query.Questions)
    IN  { UpstreamReply(query, i, NoError, Len(good), good),
          UpstreamReply(query, i, NoError, Len(good) + 1, good),
          UpstreamReply(query, i, ServerFailure, Len(good), good) }

\* what resolveWithNameservers hands back when the walk succeeds: the
\* nameserver's reply to the resolver's own query
WalkReply(answers) ==
    [Header |-> [ZeroHeader EXCEPT !.ID = ResolverID, !.QR = TRUE, !.AA = TRUE,
                                   !.QDCOUNT = 1, !.ANCOUNT = Len(answers)],
     Questions |-> <<Question(QName, TypeA)>>, Answers |-> answers,
     Authority |-> <<>>, Additional |-> <<>>]

WalkReplies == { WalkReply(<<ARecord(300)>>), WalkReply(<<BigRecord>>) }

ServerBlank ==
    /\ buf = MarshalBinary(ZeroMessage)
    /\ conn = [h \in Handlers |-> "udp"]
    /\ hup = [h \in Handlers |-> NoReply]
    /\ hpc = [h \in Handlers |-> "free"]
    /\ hmsg = [h \in Handlers |-> ZeroMessage]
    /\ hresp = [h \in Handlers |-> NoObj]
    /\ hhit = [h \in Handlers |-> FALSE]
    /\ hcode = [h \in Handlers |-> NoError]
    /\ recv = [h \in Handlers |-> MarshalBinary(ZeroMessage)]
    /\ sent = [h \in Handlers |-> <<>>]
    /\ heap = <<>>

InitServer == recursive \in BOOLEAN /\ ServerBlank

\* the objects some pointer still refers to
Live(cacheX, hrespX) ==
    ({cacheX[k].message : k \in DOMAIN cacheX} \cup {hrespX[h] : h \in Handlers}) \ {NoObj}

\* garbage collection
Collect(heapX, cacheX, hrespX) ==
    [o \in (DOMAIN heapX) \cap Live(cacheX, hrespX) |-> heapX[o]]

\* a fresh object
NewObj == CHOOSE o \in ObjIds : o \notin DOMAIN heap /\ \A p \in ObjIds \ DOMAIN heap : o <= p

\* what the cache looks at in a message
CacheView(msg) ==
    CacheMsg(FALSE, msg.Header.QDCOUNT, [i \in 1..Len(msg.Answers) |-> msg.Answers[i].TTL])

\* Start, lines 116-124: a datagram is read into buf and a handler goroutine
\* is started on buf[:n]
Accept(h, p) ==
    /\ hpc[h] = "free"
    /\ buf' = p
    /\ recv' = [recv EXCEPT ![h] = p]
    /\ conn' = [conn EXCEPT ![h] = "udp"]
    /\ hpc' = [hpc EXCEPT ![h] = "decode"]
    /\ UNCHANGED <<recursive, hup, hmsg, hresp, hhit, hcode, sent, heap, cacheVars, walkVars, codecVars, lifeVars>>

\* handleDNSRequest without lines 151-160
TrimQuestionsKeepsAll(msg) == msg

\* handleDNSRequest, lines 151-160: only the first question is kept
TrimQuestions(msg) ==
    IF Len(msg.Questions) > 1 \/ msg.Header.QDCOUNT > 1
    THEN [msg EXCEPT !.Questions = Take(msg.Questions, 1), !.Header.QDCOUNT = 1]
    ELSE msg

\* a goroutine panics and nothing recovers: the process ends, and every
\* goroutine with it
Panic == [h \in Handlers |-> "panic"]

\* handleDNSRequest, lines 134-162: data, which is buf, is decoded, the first
\* question is read for the log line 141-143 (an index out of range when
\* there is none), and the request is routed
Decode(h) ==
    /\ hpc[h] = "decode"
    /\ conn[h] = "udp"
    /\ IF UnmarshalFails(buf)
       THEN /\ hcode' = [hcode EXCEPT ![h] = FormatError]
            /\ hpc' = [hpc EXCEPT ![h] = "error"]
            /\ UNCHANGED hmsg
       ELSE IF UnmarshalBinary(buf).Questions = <<>>
       THEN /\ hmsg' = [hmsg EXCEPT ![h] = UnmarshalBinary(buf)]
            /\ hpc' = Panic
            /\ UNCHANGED hcode
       ELSE LET msg == TrimQuestions(UnmarshalBinary(buf))
            IN  /\ hmsg' = [hmsg EXCEPT ![h] = msg]
                /\ hpc' = [hpc EXCEPT ![h] =
                              IF msg.Header.RD /\ recursive THEN "resolve" ELSE "forward"]
                /\ UNCHANGED hcode
    /\ UNCHANGED <<recursive, conn, hup, buf, hresp, hhit, recv, sent, heap, cacheVars, walkVars, codecVars, lifeVars>>

\* startTCPServer and handleTCPConnection, lines 158-208: a connection is
\* accepted and the request is read into a buffer of its own, msgBuf
AcceptTCP(h, p) ==
    /\ hpc[h] = "free"
    /\ recv' = [recv EXCEPT ![h] = p]
    /\ conn' = [conn EXCEPT ![h] = "tcp"]
    /\ hpc' = [hpc EXCEPT ![h] = "decode"]
    /\ UNCHANGED <<recursive, hup, buf, hmsg, hresp, hhit, hcode, sent, heap, cacheVars,
                   walkVars, codecVars, lifeVars>>

\* processDNSRequestTCP, lines 249-258: only the first question is kept
TrimQuestionsTCP(msg) ==
    IF Len(msg.Questions) > 1
    THEN [msg EXCEPT !.Questions = Take(msg.Questions, 1), !.Header.QDCOUNT = 1]
    ELSE msg

\* processDNSRequestTCP, lines 236-260: data, which is msgBuf, is decoded (an
\* error is returned when that fails), the first question is read for the
\* log line 241-243, and the request is routed
DecodeTCP(h) ==
    /\ hpc[h] = "decode"
    /\ conn[h] = "tcp"
    /\ IF UnmarshalFails(recv[h])
       THEN /\ hpc' = [hpc EXCEPT ![h] = "error"]
            /\ UNCHANGED hmsg
       ELSE IF UnmarshalBinary(recv[h]).Questions = <<>>
       THEN /\ hmsg' = [hmsg EXCEPT ![h] = UnmarshalBinary(recv[h])]
            /\ hpc' = Panic
       ELSE LET msg == TrimQuestionsTCP(UnmarshalBinary(recv[h]))
            IN  /\ hmsg' = [hmsg EXCEPT ![h] = msg]
                /\ hpc' = [hpc EXCEPT ![h] =
                              IF msg.Header.RD /\ recursive THEN "resolve" ELSE "forward"]
    /\ UNCHANGED <<recursive, conn, hup, buf, hresp, hhit, hcode, recv, sent, heap, cacheVars,
                   walkVars, codecVars, lifeVars>>

\* resolveRecursively, lines 373-388: the question count check and the cache
\* lookup
Resolve(h) ==
    /\ hpc[h] = "resolve"
    /\ LET query == hmsg[h]
           ok == Len(query.Questions) = 1 /\ query.Header.QDCOUNT = 1
           key == CacheKey(query.Questions[1].Name, query.Questions[1].Type)
           found == key \in DOMAIN cache
       IN  IF ~ok
           THEN /\ hcode' = [hcode EXCEPT ![h] = ServerFailure]
                /\ hpc' = [hpc EXCEPT ![h] = "error"]
                /\ UNCHANGED <<hresp, hhit>>
           ELSE IF found /\ GetHits(found, cache[key], now)
           THEN /\ hresp' = [hresp EXCEPT ![h] = cache[key].message]
                /\ hhit' = [hhit EXCEPT ![h] = TRUE]
                /\ hpc' = [hpc EXCEPT ![h] = "restamp"]
                /\ UNCHANGED hcode
           ELSE /\ hpc' = [hpc EXCEPT ![h] = "walk"]
                /\ UNCHANGED <<hresp, hhit, hcode>>
    /\ UNCHANGED <<recursive, conn, hup, buf, hmsg, recv, sent, heap, cacheVars, walkVars, codecVars, lifeVars>>

\* resolveRecursively, lines 386-387: che.Header.ID = query.Header.ID
Restamp(h) ==
    /\ hpc[h] = "restamp"
    /\ heap' = [heap EXCEPT ![hresp[h]].Header.ID = hmsg[h].Header.ID]
    /\ hpc' = [hpc EXCEPT ![h] = "check"]
    /\ UNCHANGED <<recursive, conn, hup, buf, hmsg, hresp, hhit, hcode, recv, sent, cacheVars,
                   walkVars, codecVars, lifeVars>>

\* resolveRecursively, lines 422-439: the copy of the walk's result with the
\* client's id, QR, RA, the result's AA and the three record counts
BuildResponse(query, result) ==
    LET response == Copy(result)
    IN  [response EXCEPT !.Header.ID = query.Header.ID,
                         !.Header.QR = TRUE,
                         !.Header.RA = TRUE,
                         !.Header.AA = result.Header.AA,
                         !.Header.ANCOUNT = Len(response.Answers),
                         !.Header.NSCOUNT = Len(response.Authority),
                         !.Header.ARCOUNT = Len(response.Additional)]

\* resolveRecursively, lines 394-398 and 422-443: the walk yields a result;
\* the response is built, put into the cache and returned
WalkFound(h, result) ==
    /\ hpc[h] = "walk"
    /\ LET query == hmsg[h]
           key == CacheKey(query.Questions[1].Name, query.Questions[1].Type)
           response == BuildResponse(query, result)
           o == NewObj
           respX == [hresp EXCEPT ![h] = o]
           cacheX == IF PutSkips(CacheView(response)) THEN cache
                     ELSE MapSet(cache, key,
                                 [message |-> o,
                                  expiresAt |-> now + CacheTTL(CacheView(response))])
       IN  /\ hresp' = respX
           /\ cache' = cacheX
           /\ heap' = Collect(MapSet(heap, o, response), cacheX, respX)
    /\ hpc' = [hpc EXCEPT ![h] = "check"]
    /\ UNCHANGED <<recursive, conn, hup, buf, hmsg, hhit, hcode, recv, sent,
                   now, mu, cpc, cargs, cres, spc, lastWrite, putLog, walkVars, codecVars, lifeVars>>

\* resolveRecursively, lines 399-408: the walk fails, the query goes to the
\* upstream forwarder
WalkFailed(h) ==
    /\ hpc[h] = "walk"
    /\ hmsg' = [hmsg EXCEPT ![h].Header.QR = FALSE]
    /\ hpc' = [hpc EXCEPT ![h] = "fallback"]
    /\ UNCHANGED <<recursive, conn, hup, buf, hresp, hhit, hcode, recv, sent, heap, cacheVars,
                   walkVars, codecVars, lifeVars>>

\* resolveRecursively, line 409 with forwardToResolver, lines 353-363: the
\* upstream's reply is decoded and returned as it is
FallbackReply(h, u) ==
    /\ hpc[h] = "fallback"
    /\ ~UnmarshalFails(u)
    /\ LET o == NewObj
       IN  /\ hresp' = [hresp EXCEPT ![h] = o]
           /\ heap' = MapSet(heap, o, UnmarshalBinary(u))
    /\ hpc' = [hpc EXCEPT ![h] = "check"]
    /\ UNCHANGED <<recursive, conn, hup, buf, hmsg, hhit, hcode, recv, sent, cacheVars, walkVars, codecVars, lifeVars>>

\* forwardToResolver fails (lines 339-361); handleDNSRequest, lines 164-169
FallbackError(h) ==
    /\ hpc[h] = "fallback"
    /\ hcode' = [hcode EXCEPT ![h] = ServerFailure]
    /\ hpc' = [hpc EXCEPT ![h] = "error"]
    /\ UNCHANGED <<recursive, conn, hup, buf, hmsg, hresp, hhit, recv, sent, heap, cacheVars,
                   walkVars, codecVars, lifeVars>>

\* handleDNSRequest, lines 171-182: a reply with an error RCODE becomes an
\* error response; otherwise resp.Header.ID = msg.Header.ID
Check(h) ==
    /\ hpc[h] = "check"
    /\ conn[h] = "udp"
    /\ LET o == hresp[h]
       IN  IF heap[o].Header.RCODE # NoError
           THEN LET respX == [hresp EXCEPT ![h] = NoObj]
                IN  /\ hcode' = [hcode EXCEPT ![h] = heap[o].Header.RCODE]
                    /\ hresp' = respX
                    /\ heap' = Collect(heap, cache, respX)
                    /\ hpc' = [hpc EXCEPT ![h] = "error"]
           ELSE /\ heap' = [heap EXCEPT ![o].Header.ID = hmsg[h].Header.ID]
                /\ hpc' = [hpc EXCEPT ![h] = "marshal"]
                /\ UNCHANGED <<hcode, hresp>>
    /\ UNCHANGED <<recursive, conn, hup, buf, hmsg, hhit, recv, sent, cacheVars, walkVars, codecVars, lifeVars>>

\* handleDNSRequest, lines 184-191 and 201: resp is encoded; a datagram of at
\* most 512 bytes is written to the client
Marshal(h) ==
    /\ hpc[h] = "marshal"
    /\ conn[h] = "udp"
    /\ LET respData == MarshalBinary(heap[hresp[h]])
           respX == [hresp EXCEPT ![h] = NoObj]
       IN  IF WireLen(respData) > UdpMax
           THEN /\ hpc' = [hpc EXCEPT ![h] = "settc"]
                /\ UNCHANGED <<sent, hresp, heap>>
           ELSE /\ sent' = [sent EXCEPT ![h] = <<respData>>]
                /\ hresp' = respX
                /\ heap' = Collect(heap, cache, respX)
                /\ hpc' = [hpc EXCEPT ![h] = "done"]
    /\ UNCHANGED <<recursive, conn, hup, buf, hmsg, hhit, hcode, recv, cacheVars, walkVars, codecVars, lifeVars>>

\* handleDNSRequest, line 192: resp.Header.SetTC(true)
SetTC(h) ==
    /\ hpc[h] = "settc"
    /\ heap' = [heap EXCEPT ![hresp[h]].Header.TC = TRUE]
    /\ hpc' = [hpc EXCEPT ![h] = "marshal2"]
    /\ UNCHANGED <<recursive, conn, hup, buf, hmsg, hresp, hhit, hcode, recv, sent, cacheVars,
                   walkVars, codecVars, lifeVars>>

\* handleDNSRequest, lines 193-201: resp is encoded again and written
Marshal2(h) ==
    /\ hpc[h] = "marshal2"
    /\ LET respX == [hresp EXCEPT ![h] = NoObj]
       IN  /\ sent' = [sent EXCEPT ![h] = <<MarshalBinary(heap[hresp[h]])>>]
           /\ hresp' = respX
           /\ heap' = Collect(heap, cache, respX)
    /\ hpc' = [hpc EXCEPT ![h] = "done"]
    /\ UNCHANGED <<recursive, conn, hup, buf, hmsg, hhit, hcode, recv, cacheVars, walkVars, codecVars, lifeVars>>

\* processDNSRequestTCP, line 265: response.Header.SetTC(false) on the
\* message resolveRecursively returned
ClearTC(h) ==
    /\ hpc[h] = "check"
    /\ conn[h] = "tcp"
    /\ heap' = [heap EXCEPT ![hresp[h]].Header.TC = FALSE]
    /\ hpc' = [hpc EXCEPT ![h] = "marshal"]
    /\ UNCHANGED <<recursive, conn, hup, buf, hmsg, hresp, hhit, hcode, recv, sent, cacheVars,
                   walkVars, codecVars, lifeVars>>

\* processDNSRequestTCP, line 266, and handleTCPConnection, lines 216-224:
\* the response is encoded and written to the connection
MarshalTCP(h) ==
    /\ hpc[h] = "marshal"
    /\ conn[h] = "tcp"
    /\ LET respX == [hresp EXCEPT ![h] = NoObj]
       IN  /\ sent' = [sent EXCEPT ![h] = <<MarshalBinary(heap[hresp[h]])>>]
           /\ hresp' = respX
           /\ heap' = Collect(heap, cache, respX)
    /\ hpc' = [hpc EXCEPT ![h] = "done"]
    /\ UNCHANGED <<recursive, conn, hup, buf, hmsg, hhit, hcode, recv, cacheVars, walkVars, codecVars, lifeVars>>

\* handleDNSRequest, lines 239-247: the TC flag when the encoding is too long
WithTC(msg) ==
    IF WireLen(MarshalBinary(msg)) > UdpMax THEN [msg EXCEPT !.Header.TC = TRUE] ELSE msg

\* handleDNSRequest, lines 212-257: the query is forwarded with QR cleared;
\* a reply that has answers is encoded and written to the client
ForwardReply(h, u) ==
    /\ hpc[h] = "forward"
    /\ conn[h] = "udp"
    /\ ~UnmarshalFails(u)
    /\ LET responseData == UnmarshalBinary(u)
       IN  sent' = [sent EXCEPT ![h] =
                       IF Len(responseData.Answers) > 0 /\ responseData.Header.ANCOUNT # 0
                       THEN <<MarshalBinary(WithTC(responseData))>>
                       ELSE <<>>]
    /\ hup' = [hup EXCEPT ![h] = u]
    /\ hmsg' = [hmsg EXCEPT ![h].Header.QR = FALSE]
    /\ hpc' = [hpc EXCEPT ![h] = "done"]
    /\ UNCHANGED <<recursive, conn, buf, hresp, hhit, hcode, recv, heap, cacheVars, walkVars, codecVars, lifeVars>>

\* processDNSRequestTCP, lines 268-286: the query is forwarded over a stream
\* with QR cleared; the reply is checked with msg.IsNoErrWithMatchingID, TC
\* is cleared, and the reply is encoded and written; without it the
\* connection is closed (handleTCPConnection, lines 210-214)
ForwardReplyTCP(h, u) ==
    /\ hpc[h] = "forward"
    /\ conn[h] = "tcp"
    /\ ~UnmarshalFails(u)
    /\ LET msg == [hmsg[h] EXCEPT !.Header.QR = FALSE]
           msgData == UnmarshalBinary(u)
       IN  /\ hmsg' = [hmsg EXCEPT ![h] = msg]
           /\ sent' = [sent EXCEPT ![h] =
                          IF IsNoErrWithMatchingID(msg, msgData.Header.ID)
                          THEN <<MarshalBinary([msgData EXCEPT !.Header.TC = FALSE])>>
                          ELSE <<>>]
    /\ hup' = [hup EXCEPT ![h] = u]
    /\ hpc' = [hpc EXCEPT ![h] = "done"]
    /\ UNCHANGED <<recursive, conn, buf, hresp, hhit, hcode, recv, heap, cacheVars, walkVars, codecVars, lifeVars>>

\* handleDNSRequest, lines 220-229: forwardToResolver fails
ForwardError(h) ==
    /\ hpc[h] = "forward"
    /\ hmsg' = [hmsg EXCEPT ![h].Header.QR = FALSE]
    /\ hcode' = [hcode EXCEPT ![h] = ServerFailure]
    /\ hpc' = [hpc EXCEPT ![h] = "error"]
    /\ UNCHANGED <<recursive, conn, hup, buf, hresp, hhit, recv, sent, heap, cacheVars, walkVars, codecVars, lifeVars>>

\* sendErrorResponse, lines 264-319: the request's header with QR and RCODE
\* set goes into errorMsg; the four Set..COUNT calls that follow act on the
\* local h, not on errorMsg.Header
ErrorResponse(data, errorCode) ==
    LET h == [data.hdr EXCEPT !.QR = TRUE, !.RCODE = errorCode]
        questions == IF UnmarshalFails(data) THEN <<>>
                     ELSE UnmarshalBinary(data).Questions
        errorMsg == [Header |-> h, Questions |-> questions, Answers |-> <<>>,
                     Authority |-> <<>>, Additional |-> <<>>]
    IN  MarshalBinary(errorMsg)

\* sendErrorResponse, lines 261-333, on data, which is buf
SendError(h) ==
    /\ hpc[h] = "error"
    /\ conn[h] = "udp"
    /\ sent' = [sent EXCEPT ![h] = <<ErrorResponse(buf, hcode[h])>>]
    /\ hpc' = [hpc EXCEPT ![h] = "done"]
    /\ UNCHANGED <<recursive, conn, hup, buf, hmsg, hresp, hhit, hcode, recv, heap, cacheVars,
                   walkVars, codecVars, lifeVars>>

\* handleTCPConnection, lines 210-214: processDNSRequestTCP returned an
\* error; it is logged and the connection is closed with nothing written
CloseTCP(h) ==
    /\ hpc[h] = "error"
    /\ conn[h] = "tcp"
    /\ hpc' = [hpc EXCEPT ![h] = "done"]
    /\ UNCHANGED <<recursive, conn, hup, buf, hmsg, hresp, hhit, hcode, recv, sent, heap,
                   cacheVars, walkVars, codecVars, lifeVars>>

\* handleDNSRequest returns (line 133, the deferred s.wg.Done());
\* handleTCPConnection returns (line 179)
Exit(h) ==
    /\ hpc[h] = "done"
    /\ conn' = [conn EXCEPT ![h] = "udp"]
    /\ hup' = [hup EXCEPT ![h] = NoReply]
    /\ hpc' = [hpc EXCEPT ![h] = "free"]
    /\ hmsg' = [hmsg EXCEPT ![h] = ZeroMessage]
    /\ hhit' = [hhit EXCEPT ![h] = FALSE]
    /\ hcode' = [hcode EXCEPT ![h] = NoError]
    /\ recv' = [recv EXCEPT ![h] = MarshalBinary(ZeroMessage)]
    /\ sent' = [sent EXCEPT ![h] = <<>>]
    /\ UNCHANGED <<recursive, buf, hresp, heap, cacheVars, walkVars, codecVars, lifeVars>>

NextServer ==
    \/ \E h \in Handlers : \E p \in Requests(h) : Accept(h, p)
    \/ \E h \in Handlers : Decode(h)
    \/ \E h \in StreamHandlers : \E p \in StreamRequests(h) : AcceptTCP(h, p)
    \/ \E h \in Handlers : DecodeTCP(h)
    \/ \E h \in Handlers : ClearTC(h)
    \/ \E h \in Handlers : MarshalTCP(h)
    \/ \E h \in Handlers : \E u \in UpstreamReplies(hmsg[h]) : ForwardReplyTCP(h, u)
    \/ \E h \in Handlers : CloseTCP(h)
    \/ \E h \in Handlers : Resolve(h)
    \/ \E h \in Handlers : Restamp(h)
    \/ \E h \in Handlers : \E r \in WalkReplies : WalkFound(h, r)
    \/ \E h \in Handlers : WalkFailed(h)
    \/ \E h \in Handlers : \E u \in FallbackReplies(hmsg[h]) : FallbackReply(h, u)
    \/ \E h \in Handlers : FallbackError(h)
    \/ \E h \in Handlers : Check(h)
    \/ \E h \in Handlers : Marshal(h)
    \/ \E h \in Handlers : SetTC(h)
    \/ \E h \in Handlers : Marshal2(h)
    \/ \E h \in Handlers : \E u \in UpstreamReplies(hmsg[h]) : ForwardReply(h, u)
    \/ \E h \in Handlers : ForwardError(h)
    \/ \E h \in Handlers : SendError(h)
    \/ \E h \in Handlers : Exit(h)

(***************************************************************************)
(* ---------------------  THE ITERATIVE WALK  ---------------------------- *)
(***************************************************************************)

\* header.ResponseCode NameError
NameError == 3

\* the names the walk is asked for, and the names CNAME records point to
Names == {"a.test", "b.test"}

\* the values SetRandomID draws from
QueryIDs == {1, 2}

\* the transaction id of the client's query and of the queries
\* CreateDNSQuery builds for CNAME targets
FrameIDs == {1}

\* an id SetRandomID did not draw
OtherID(id) == 3 - id

\* resolveWithNameservers: const maxDelegations
maxDelegations == 10

\* the nested resolveRecursively activations that are followed: as many as
\* it takes for a name to come up twice
MaxStack == Cardinality(Names) + 1

\* the number of delegations below the root in the zone tree
ZoneDepth == 1

\* DNSServer.rootServers after bootstrap
rootServers == <<"root1", "root2">>

\* DNSServer.rootServers of the server n: bootstrapRootServers assigns the
\* field only when it succeeds
RootServersOf(n) == IF n = "rootless" THEN <<>> ELSE rootServers

AnswerRecord(d) == Record(d, TypeA, 300, "1.2.3.4", 24)

CnameRecord(d, ttl, target) == Record(d, TypeCNAME, ttl, target, 30)

NSRecord(ns) == Record("test", TypeNS, 300, ns, 30)

GlueRecord(ns) == Record(ns, TypeA, 300, "10.0.0.1", 24)

SOARecord == Record("test", TypeSOA, 300, "soa", 50)

\* a datagram of a nameserver answering a query for d
NsPacket(id, rcode, aa, tc, d, ancount, an, ns, ar) ==
    [hdr |-> [ZeroHeader EXCEPT !.ID = id, !.QR = TRUE, !.AA = aa, !.TC = tc,
                                !.RCODE = rcode, !.QDCOUNT = 1, !.ANCOUNT = ancount,
                                !.NSCOUNT = Len(ns), !.ARCOUNT = Len(ar)],
     qs |-> <<Question(d, TypeA)>>, an |-> an, ns |-> ns, ar |-> ar]

\* what a read from a socket yields: a packet, or an error
Arrived(pkt) == [ok |-> TRUE, pkt |-> pkt]

Lost == [ok |-> FALSE, pkt |-> MarshalBinary(ZeroMessage)]

\* the replies every nameserver can give to the query id for d: an answer,
\* a negative answer, nothing useful, an answer short of its ANCOUNT, an
\* answer to another query, an error code, a truncated reply, a truncated
\* reply with an error code, no reply
PlainReplies(id, d) ==
    { Arrived(NsPacket(id, NoError, TRUE, FALSE, d, 1, <<AnswerRecord(d)>>, <<>>, <<>>)),
      Arrived(NsPacket(id, NoError, TRUE, FALSE, d, 0, <<>>, <<SOARecord>>, <<>>)),
      Arrived(NsPacket(id, NoError, FALSE, FALSE, d, 0, <<>>, <<>>, <<>>)),
      Arrived(NsPacket(id, NoError, TRUE, FALSE, d, 2, <<AnswerRecord(d)>>, <<>>, <<>>)),
      Arrived(NsPacket(OtherID(id), NoError, TRUE, FALSE, d, 1, <<AnswerRecord(d)>>, <<>>, <<>>)),
      Arrived(NsPacket(id, NameError, TRUE, FALSE, d, 0, <<>>, <<SOARecord>>, <<>>)),
      Arrived(NsPacket(id, NoError, TRUE, TRUE, d, 0, <<>>, <<>>, <<>>)),
      Arrived(NsPacket(id, NameError, TRUE, TRUE, d, 0, <<>>, <<SOARecord>>, <<>>)),
      Lost }

\* a referral with glue, and a referral that names the parent zone itself
\* as its nameserver and carries no glue
ReferralReplies(id, d) ==
    { Arrived(NsPacket(id, NoError, FALSE, FALSE, d, 0, <<>>,
                       <<NSRecord("ns1")>>, <<GlueRecord("ns1")>>)),
      Arrived(NsPacket(id, NoError, FALSE, FALSE, d, 0, <<>>,
                       <<NSRecord("test")>>, <<>>)) }

\* an alias of d
CnameReplies(id, d) ==
    { Arrived(NsPacket(id, NoError, TRUE, FALSE, d, 1,
                       <<CnameRecord(d, 300, t)>>, <<>>, <<>>)) : t \in Names }

\* the replies over the stream retry
StreamReplies(id, d) ==
    { Arrived(NsPacket(id, NoError, TRUE, FALSE, d, 1, <<AnswerRecord(d)>>, <<>>, <<>>)),
      Arrived(NsPacket(OtherID(id), NoError, TRUE, FALSE, d, 1, <<AnswerRecord(d)>>, <<>>, <<>>)),
      Arrived(NsPacket(id, NameError, TRUE, FALSE, d, 0, <<>>, <<SOARecord>>, <<>>)),
      Lost }

\* the replies of the upstream forwarder to the fallback query
ForwarderReplies(id, d) ==
    { Arrived([hdr |-> [ZeroHeader EXCEPT !.ID = id, !.QR = TRUE, !.RA = TRUE,
                                          !.QDCOUNT = 1, !.ANCOUNT = 1],
               qs |-> <<Question(d, TypeA)>>, an |-> <<AnswerRecord(d)>>,
               ns |-> <<>>, ar |-> <<>>]),
      Arrived([hdr |-> [ZeroHeader EXCEPT !.ID = id, !.QR = TRUE, !.RA = TRUE,
                                          !.RCODE = ServerFailure, !.QDCOUNT = 1],
               qs |-> <<Question(d, TypeA)>>, an |-> <<>>, ns |-> <<>>, ar |-> <<>>]),
      Arrived([hdr |-> [ZeroHeader EXCEPT !.ID = OtherID(id), !.QR = TRUE,
                                          !.QDCOUNT = 1, !.ANCOUNT = 1],
               qs |-> <<Question(d, TypeA)>>, an |-> <<AnswerRecord(d)>>,
               ns |-> <<>>, ar |-> <<>>]),
      Lost }

NoRet == [kind |-> "none", msg |-> ZeroMessage]

NoQuery ==
    [sent |-> FALSE, qid |-> 0, got |-> 0, rcode |-> 0, tc |-> FALSE, stream |-> FALSE,
     gotStream |-> 0, streamRcode |-> 0, used |-> FALSE, usedTC |-> FALSE, rid |-> 0,
     depth |-> 0, candidates |-> 0, hit |-> FALSE]

WalkBlank == roots = <<>> /\ serving = FALSE /\ stack = <<>> /\ ret = NoRet /\ nsLog = NoQuery

\* "rootless": bootstrapRootServers failed in Start, which only logs it
InitWalk == net \in {"tree", "endless", "rootless"} /\ WalkBlank

InitWalkIdle == net = "tree" /\ WalkBlank

\* the replies the nameservers of this network give at delegation depth depth
\* the other name of the model
Sibling(d) == IF d = QName THEN OtherName ELSE QName

\* the replies of the net "refer": an answer, no reply, and above the zone
\* itself three referrals: to the sibling name without glue; to "ns1" with
\* glue and to the sibling name without; to the parent zone's own name and
\* to the sibling name, both without glue
ReferReplies(id, d, depth) ==
    { Arrived(NsPacket(id, NoError, TRUE, FALSE, d, 1, <<AnswerRecord(d)>>, <<>>, <<>>)),
      Lost }
      \cup (IF depth < ZoneDepth
            THEN { Arrived(NsPacket(id, NoError, FALSE, FALSE, d, 0, <<>>,
                                    <<NSRecord(Sibling(d))>>, <<>>)),
                   Arrived(NsPacket(id, NoError, FALSE, FALSE, d, 0, <<>>,
                                    <<NSRecord("ns1"), NSRecord(Sibling(d))>>,
                                    <<GlueRecord("ns1")>>)),
                   Arrived(NsPacket(id, NoError, FALSE, FALSE, d, 0, <<>>,
                                    <<NSRecord("test"), NSRecord(Sibling(d))>>, <<>>)) }
            ELSE {})

NsReplies(id, d, depth) ==
    IF net = "refer" THEN ReferReplies(id, d, depth)
    ELSE
    PlainReplies(id, d)
      \cup (IF net = "endless" \/ depth < ZoneDepth THEN ReferralReplies(id, d) ELSE {})
      \cup (IF net = "tree" THEN CnameReplies(id, d) ELSE {})

\* Message.CreateDNSQuery followed by SetRandomID: a one-question query
CreateDNSQuery(name, qtype, id) ==
    [ZeroMessage EXCEPT !.Header.ID = id, !.Header.QDCOUNT = 1,
                        !.Questions = <<Question(name, qtype)>>]

\* what queryNameserver returns: an error or a message, and whether the
\* stream retry took place
Failed(stream) == [err |-> TRUE, msg |-> ZeroMessage, stream |-> stream]

Returned(msg, stream) == [err |-> FALSE, msg |-> msg, stream |-> stream]

\* queryNameserverTCP: the same query goes out over a stream; the reply is
\* decoded and handed back only if it is valid for the query's id
queryNameserverTCP(query, reply) ==
    IF ~reply.ok \/ UnmarshalFails(reply.pkt) THEN Failed(TRUE)
    ELSE LET response == UnmarshalBinary(reply.pkt)
         IN  IF ~IsNoErrWithMatchingID(response, query.Header.ID) THEN Failed(TRUE)
             ELSE Returned(response, TRUE)

\* queryNameserver without the check of line 843
queryNameserverUnchecked(query, reply, streamReply) ==
    IF ~reply.ok \/ UnmarshalFails(reply.pkt) THEN Failed(FALSE)
    ELSE LET response == UnmarshalBinary(reply.pkt)
         IN  IF response.Header.TC THEN queryNameserverTCP(query, streamReply)
             ELSE Returned(response, FALSE)

\* queryNameserver handing the truncated datagram reply to the walk
queryNameserverKeepsTruncated(query, reply, streamReply) ==
    IF ~reply.ok \/ UnmarshalFails(reply.pkt) THEN Failed(FALSE)
    ELSE LET response == UnmarshalBinary(reply.pkt)
         IN  IF ~IsNoErrWithMatchingID(response, query.Header.ID) THEN Failed(FALSE)
             ELSE Returned(response, FALSE)

\* queryNameserver, lines 805-850: the query goes out in a datagram; the
\* reply is decoded, checked against the query's id, and a truncated reply
\* is asked for again over a stream
queryNameserver(query, reply, streamReply) ==
    IF ~reply.ok \/ UnmarshalFails(reply.pkt) THEN Failed(FALSE)
    ELSE LET response == UnmarshalBinary(reply.pkt)
         IN  IF ~IsNoErrWithMatchingID(response, query.Header.ID) THEN Failed(FALSE)
             ELSE IF response.Header.TC THEN queryNameserverTCP(query, streamReply)
             ELSE Returned(response, FALSE)

\* the records of one type
OfType(rs, type) == SelectSeq(rs, LAMBDA r : r.Type = type)

\* strings.HasSuffix(domain, auth), for the names of this model
HasSuffix(domain, auth) == auth = domain \/ auth = "test"

RECURSIVE GlueFor(_, _)
\* extractAuthorityNameservers, lines 703-719: one nameserver per A record
\* of the additional section that is named like an NS record
GlueFor(additional, authority) ==
    IF additional = <<>> THEN <<>>
    ELSE LET add == Head(additional)
             hits == SelectSeq(authority, LAMBDA auth : add.Type = TypeA /\ add.Name = auth)
         IN  hits \o GlueFor(Tail(additional), authority)

\* extractAuthorityNameservers, lines 671-688: the names of the NS records
\* of the authority section
AuthorityNames(nsResp) ==
    LET nsRecords == OfType(nsResp.Authority, TypeNS)
    IN  [i \in 1..Len(nsRecords) |-> nsRecords[i].RDATA]

\* extractAuthorityNameservers, lines 672-675, 690-692 and 699-702: the
\* returns of (nil, false) before any nameserver is looked for
ExtractFails(nsResp) ==
    \/ nsResp.Header.NSCOUNT = 0
    \/ nsResp.Header.NSCOUNT # Len(nsResp.Authority)
    \/ AuthorityNames(nsResp) = <<>>
    \/ nsResp.Header.ARCOUNT # 0 /\ Len(nsResp.Additional) # nsResp.Header.ARCOUNT

\* extractAuthorityNameservers, lines 697-720: the nameservers the glue gives
Glue(nsResp) ==
    IF nsResp.Header.ARCOUNT # 0 THEN GlueFor(nsResp.Additional, AuthorityNames(nsResp))
    ELSE <<>>

\* the names handed to resolveNameserverRecursively were glue not looked at
ToResolveDespiteGlue(domain, nsResp) ==
    IF ExtractFails(nsResp) THEN <<>>
    ELSE SelectSeq(AuthorityNames(nsResp),
                   LAMBDA auth : auth \notin Range(Glue(nsResp)) /\ ~HasSuffix(domain, auth))

\* extractAuthorityNameservers, lines 722-747: with no glue found at all, the
\* names handed to resolveNameserverRecursively, in the order of the
\* authority section; a name that is a suffix of the domain is skipped
ToResolve(domain, nsResp) ==
    IF ExtractFails(nsResp) \/ Glue(nsResp) # <<>> THEN <<>>
    ELSE SelectSeq(AuthorityNames(nsResp), LAMBDA auth : ~HasSuffix(domain, auth))

\* extractAuthorityNameservers: the nameservers a referral gives, resolved
\* being the ones that resolving the names of ToResolve has given
extractAuthorityNameservers(domain, nsResp, resolved) ==
    IF ExtractFails(nsResp) THEN <<>>
    ELSE IF Glue(nsResp) # <<>> THEN Glue(nsResp)
    ELSE resolved

\* a resolveRecursively activation for the question (d, A) of a query with
\* transaction id id, with the locals of the walk it runs
Frame(d, id) ==
    [domain |-> d, id |-> id, pc |-> "start", nameservers |-> <<>>,
     delegationCount |-> 0, cnameChain |-> {}, nsResp |-> ZeroMessage,
     response |-> ZeroMessage, answer |-> 0, cnameID |-> 0,
     pending |-> <<>>, found |-> <<>>, asked |-> {}, nsID |-> 0]

Top == stack[Len(stack)]

At(pc) == stack # <<>> /\ ret = NoRet /\ Top.pc = pc

SetTop(f) == [stack EXCEPT ![Len(stack)] = f]

Pop == SubSeq(stack, 1, Len(stack) - 1)

\* the locals a frame no longer reads
Forget(f) == [f EXCEPT !.nsResp = ZeroMessage, !.response = ZeroMessage,
                       !.answer = 0, !.cnameID = 0,
                       !.pending = <<>>, !.found = <<>>, !.asked = {}, !.nsID = 0]

\* return s.resolveWithNameservers(domain, questionType, nameservers, ...)
Recurse(f, nameservers, delegationCount) ==
    SetTop([Forget(f) EXCEPT !.pc = "walk", !.nameservers = nameservers,
                             !.delegationCount = delegationCount])

\* resolveWithNameservers returns an error and resolveRecursively asks
\* nobody else
GiveUpAsksAgain(f) == SetTop([Forget(f) EXCEPT !.pc = "start"])

\* resolveWithNameservers returns an error: resolveRecursively goes on at
\* line 399
GiveUp(f) == SetTop([Forget(f) EXCEPT !.pc = "fallback"])

\* resolveRecursively, lines 422-443: the walk returned result; the response
\* is built, put into the cache and returned to the caller
Found(f, result) ==
    LET query == CreateDNSQuery(f.domain, TypeA, f.id)
        key == CacheKey(f.domain, TypeA)
        response == BuildResponse(query, result)
    IN  /\ cache' = IF PutSkips(CacheView(response)) THEN cache
                    ELSE MapSet(cache, key,
                                [message |-> response,
                                 expiresAt |-> now + CacheTTL(CacheView(response))])
        /\ ret' = [kind |-> "msg", msg |-> response]
        /\ stack' = Pop

\* Start, lines 101-107, and bootstrapRootServers, lines 118-124: the list
\* bootstrap obtained is assigned to s.rootServers, or nothing is when it
\* obtained none; after that the accept loops start
Bootstrap ==
    /\ ~serving
    /\ roots' = RootServersOf(net)
    /\ serving' = TRUE
    /\ UNCHANGED <<net, stack, ret, nsLog, cache, cacheRest, serverVars, codecVars, lifeVars>>

\* a walk that would start at the servers after the first
StartingServersSkipFirst(list) == SubSeq(list, 2, Len(list))

\* resolveRecursively, lines 394-395: the walk's list is a new slice with
\* the elements of s.rootServers
StartingServers(list) == list

\* a query arrives at resolveRecursively
WalkStart(d, id) ==
    /\ serving
    /\ stack = <<>>
    /\ stack' = <<Frame(d, id)>>
    /\ ret' = NoRet
    /\ nsLog' = NoQuery
    /\ UNCHANGED <<net, roots, serving, cache, cacheRest, serverVars, codecVars, lifeVars>>

\* resolveRecursively, lines 380-398: a cache hit is restamped with the
\* query's id and returned; otherwise the walk starts at the root servers
\* with delegation count 0 and a new, empty CNAME chain
\* a resolver that never finds anything in the cache
CacheHitNever(key) == FALSE

\* resolveRecursively, line 384: s.cache.Get(cacheKey) != nil
CacheHit(key) == key \in DOMAIN cache /\ GetHits(TRUE, cache[key], now)

ResolveStart ==
    /\ At("start")
    /\ LET f == Top
           key == CacheKey(f.domain, TypeA)
       IN  IF CacheHit(key)
           THEN /\ cache' = [cache EXCEPT ![key].message.Header.ID = f.id]
                /\ ret' = [kind |-> "msg",
                           msg |-> [cache[key].message EXCEPT !.Header.ID = f.id]]
                /\ stack' = Pop
           ELSE /\ stack' = Recurse([f EXCEPT !.cnameChain = {}], StartingServers(roots), 0)
                /\ UNCHANGED <<cache, ret>>
    /\ nsLog' = [NoQuery EXCEPT !.hit = CacheHit(CacheKey(Top.domain, TypeA))]
    /\ UNCHANGED <<net, roots, serving, cacheRest, serverVars, codecVars, lifeVars>>

\* resolveWithNameservers without its first base case
DelegationLimitOffByOne(delegationCount) == delegationCount > maxDelegations

\* resolveWithNameservers, lines 453-455: the delegation limit is reached
DelegationLimit(delegationCount) == delegationCount >= maxDelegations

\* resolveWithNameservers, lines 453-459: the base cases
WalkBaseCase ==
    /\ At("walk")
    /\ DelegationLimit(Top.delegationCount) \/ Top.nameservers = <<>>
    /\ stack' = GiveUp(Top)
    /\ nsLog' = NoQuery
    /\ UNCHANGED <<net, roots, serving, ret, cache, cacheRest, serverVars, codecVars, lifeVars>>

\* a failed query that would end the walk
QueryFailedEndsWalk(f, remainingServers) == GiveUp(f)

\* resolveWithNameservers, lines 478-484: queryNameserver returned an error
\* and the walk goes on with the remaining servers, the delegation count
\* as it is
QueryFailed(f, remainingServers) == Recurse(f, remainingServers, f.delegationCount)

\* resolveWithNameservers, lines 461-507: the first nameserver of the list is
\* asked; a failed query and an answer section short of ANCOUNT send the walk
\* to the remaining servers, an answer section goes to handleCNAMEs
AskNameserver(id, reply, streamReply) ==
    /\ At("walk")
    /\ ~DelegationLimit(Top.delegationCount)
    /\ Top.nameservers # <<>>
    /\ LET f == Top
           remainingServers == Tail(f.nameservers)
           nsQuery == CreateDNSQuery(f.domain, TypeA, id)
           r == queryNameserver(nsQuery, reply, streamReply)
           nsResp == r.msg
       IN  /\ nsLog' = [sent |-> TRUE, qid |-> id,
                        got |-> IF reply.ok THEN reply.pkt.hdr.ID ELSE 0,
                        rcode |-> IF reply.ok THEN reply.pkt.hdr.RCODE ELSE 0,
                        tc |-> reply.ok /\ reply.pkt.hdr.TC,
                        streamRcode |-> IF r.stream /\ streamReply.ok
                                        THEN streamReply.pkt.hdr.RCODE ELSE 0,
                        usedTC |-> ~r.err /\ nsResp.Header.TC,
                        stream |-> r.stream,
                        gotStream |-> IF r.stream /\ streamReply.ok
                                      THEN streamReply.pkt.hdr.ID ELSE 0,
                        used |-> ~r.err,
                        rid |-> IF r.err THEN 0 ELSE nsResp.Header.ID,
                        depth |-> f.delegationCount,
                        candidates |-> Len(f.nameservers),
                        hit |-> FALSE]
           /\ stack' =
                IF r.err THEN QueryFailed(f, remainingServers)
                ELSE IF ~IsNoErrWithMatchingID(nsResp, id) THEN GiveUp(f)
                ELSE IF nsResp.Header.ANCOUNT > 0
                THEN IF Len(nsResp.Answers) # nsResp.Header.ANCOUNT
                     THEN Recurse(f, remainingServers, f.delegationCount)
                     ELSE SetTop([f EXCEPT !.pc = "cnames", !.nsResp = nsResp,
                                           !.response = [ZeroMessage EXCEPT
                                               !.Header = nsResp.Header,
                                               !.Questions = nsResp.Questions],
                                           !.answer = 1])
                ELSE SetTop([f EXCEPT !.pc = "classify", !.nsResp = nsResp])
    /\ UNCHANGED <<net, roots, serving, ret, cache, cacheRest, serverVars, codecVars, lifeVars>>

\* handleCNAMEs, lines 561-604 and 646-662: the next answer is looked at.  A
\* CNAME of the domain whose target is in the chain ends the follow; any
\* other target is added to the chain and resolved by resolveRecursively
HandleCNAMEs(id) ==
    /\ At("cnames")
    /\ LET f == Top
           answers == f.nsResp.Answers
           answer == answers[f.answer]
           cname == answer.RDATA
           response == [f.response EXCEPT
                           !.Header.ANCOUNT = Len(f.response.Answers),
                           !.Header.NSCOUNT = Len(f.response.Authority),
                           !.Header.ARCOUNT = Len(f.response.Additional)]
       IN  IF f.answer > Len(answers)
           THEN IF Len(response.Answers) > 0
                THEN Found(f, response)
                ELSE /\ stack' = SetTop([f EXCEPT !.pc = "classify", !.response = ZeroMessage,
                                                  !.answer = 0])
                     /\ UNCHANGED <<cache, ret>>
           ELSE IF answer.Type # TypeCNAME \/ answer.Name # f.domain
           THEN /\ stack' = SetTop([f EXCEPT !.answer = f.answer + 1])
                /\ UNCHANGED <<cache, ret>>
           ELSE IF cname \in f.cnameChain
           THEN /\ stack' = SetTop([f EXCEPT !.pc = "classify", !.response = ZeroMessage,
                                             !.answer = 0])
                /\ UNCHANGED <<cache, ret>>
           ELSE /\ Len(stack) < MaxStack
                /\ stack' = Append(
                      SetTop([f EXCEPT !.pc = "cname_wait",
                                       !.cnameChain = f.cnameChain \cup {cname},
                                       !.response.Answers =
                                           Append(f.response.Answers,
                                                  CnameRecord(f.domain, answer.TTL, cname)),
                                       !.cnameID = id]),
                      Frame(cname, id))
                /\ UNCHANGED <<cache, ret>>
    /\ nsLog' = NoQuery
    /\ UNCHANGED <<net, roots, serving, cacheRest, serverVars, codecVars, lifeVars>>

\* handleCNAMEs with the target's answers put in front of what it has
AppendTargetInFront(response, cnameResp) ==
    [response EXCEPT !.Answers = cnameResp.Answers \o @,
                     !.Authority = @ \o cnameResp.Authority,
                     !.Additional = @ \o cnameResp.Additional]

\* handleCNAMEs, lines 620-643: copies of the target's records are appended
\* to the three sections of response
AppendTarget(response, cnameResp) ==
    [response EXCEPT !.Answers = @ \o cnameResp.Answers,
                     !.Authority = @ \o cnameResp.Authority,
                     !.Additional = @ \o cnameResp.Additional]

\* handleCNAMEs, lines 604-643: resolveRecursively returned.  An error and a
\* response that is not valid for the CNAME query end the follow; otherwise
\* the target's records are appended
CnameReturn ==
    /\ stack # <<>>
    /\ ret # NoRet
    /\ Top.pc = "cname_wait"
    /\ LET f == Top
           cnameResp == ret.msg
       IN  stack' =
             IF ret.kind = "err" \/ ~IsNoErrWithMatchingID(cnameResp, f.cnameID)
             THEN SetTop([f EXCEPT !.pc = "classify", !.response = ZeroMessage,
                                   !.answer = 0, !.cnameID = 0])
             ELSE SetTop([f EXCEPT !.pc = "cnames", !.cnameID = 0,
                                   !.answer = f.answer + 1,
                                   !.response = AppendTarget(f.response, cnameResp)])
    /\ ret' = NoRet
    /\ nsLog' = NoQuery
    /\ UNCHANGED <<net, roots, serving, cache, cacheRest, serverVars, codecVars, lifeVars>>

\* resolveWithNameservers, lines 509-543: an authoritative answer and a
\* negative answer are the walk's result; a referral is followed one
\* delegation deeper; anything else sends the walk to the remaining servers
Classify ==
    /\ At("classify")
    /\ LET f == Top
           nsResp == f.nsResp
           remainingServers == Tail(f.nameservers)
           hasSOA == \E i \in 1..Len(nsResp.Authority) : nsResp.Authority[i].Type = TypeSOA
           nextNameservers == extractAuthorityNameservers(f.domain, nsResp, <<>>)
       IN  IF nsResp.Header.AA /\ Len(nsResp.Answers) > 0 /\ nsResp.Header.ANCOUNT # 0
           THEN IF Len(nsResp.Answers) # nsResp.Header.ANCOUNT
                THEN /\ stack' = Recurse(f, remainingServers, f.delegationCount)
                     /\ UNCHANGED <<cache, ret>>
                ELSE Found(f, nsResp)
           ELSE IF hasSOA
           THEN Found(f, nsResp)
           ELSE IF ToResolve(f.domain, nsResp) # <<>>
           THEN /\ stack' = SetTop([f EXCEPT !.pc = "ns_resolve",
                                             !.pending = ToResolve(f.domain, nsResp)])
                /\ UNCHANGED <<cache, ret>>
           ELSE IF nextNameservers # <<>>
           THEN /\ stack' = Recurse(f, nextNameservers, f.delegationCount + 1)
                /\ UNCHANGED <<cache, ret>>
           ELSE IF Len(remainingServers) > 0
           THEN /\ stack' = Recurse(f, remainingServers, f.delegationCount)
                /\ UNCHANGED <<cache, ret>>
           ELSE /\ stack' = GiveUp(f)
                /\ UNCHANGED <<cache, ret>>
    /\ nsLog' = NoQuery
    /\ UNCHANGED <<net, roots, serving, cacheRest, serverVars, codecVars, lifeVars>>

\* the addresses of the A records of a message, each a nameserver named name
AddressesOf(msg, name) ==
    IF msg.Header.ANCOUNT = 0 \/ msg.Header.ANCOUNT # Len(msg.Answers) THEN <<>>
    ELSE [i \in 1..Len(OfType(msg.Answers, TypeA)) |-> name]

\* resolveNameserver (bootstrap.go, lines 128-175): the name is asked of the
\* upstream forwarder
resolveNameserver(name, id, reply) ==
    IF ~reply.ok \/ UnmarshalFails(reply.pkt) THEN <<>>
    ELSE IF ~IsNoErrWithMatchingID(UnmarshalBinary(reply.pkt), id) THEN <<>>
    ELSE AddressesOf(UnmarshalBinary(reply.pkt), name)

\* resolveNameserverRecursively, lines 759-790: what it makes of the result
\* of resolveRecursively; the empty list stands for its error
resolveNameserverRecursively(nameserver, id, result, reply) ==
    IF result.kind = "err" THEN resolveNameserver(nameserver, id, reply)
    ELSE IF ~IsNoErrWithMatchingID(result.msg, id) THEN <<>>
    ELSE AddressesOf(result.msg, nameserver)

\* extractAuthorityNameservers, lines 722-750: the next name without glue is
\* handed to resolveNameserverRecursively, which enters resolveRecursively;
\* after the last one the walk goes on as after line 534
ResolveNameserver(id) ==
    /\ At("ns_resolve")
    /\ LET f == Top
           remainingServers == Tail(f.nameservers)
           nextNameservers == extractAuthorityNameservers(f.domain, f.nsResp, f.found)
       IN  IF f.pending # <<>>
           THEN /\ Len(stack) < MaxStack
                /\ stack' = Append(
                      SetTop([f EXCEPT !.pc = "ns_wait", !.nsID = id,
                                       !.asked = f.asked \cup {Head(f.pending)}]),
                      Frame(Head(f.pending), id))
           ELSE IF nextNameservers # <<>>
           THEN stack' = Recurse(f, nextNameservers, f.delegationCount + 1)
           ELSE IF Len(remainingServers) > 0
           THEN stack' = Recurse(f, remainingServers, f.delegationCount)
           ELSE stack' = GiveUp(f)
    /\ nsLog' = NoQuery
    /\ UNCHANGED <<net, roots, serving, ret, cache, cacheRest, serverVars, codecVars, lifeVars>>

\* extractAuthorityNameservers, lines 731-746: resolveNameserverRecursively
\* has returned; its addresses are appended, an error is passed over
NameserverReturn ==
    /\ stack # <<>>
    /\ ret # NoRet
    /\ Top.pc = "ns_wait"
    /\ LET f == Top
           auth == Head(f.pending)
       IN  \E reply \in (IF ret.kind = "err" THEN ForwarderReplies(f.nsID, auth) ELSE {Lost}) :
              stack' = SetTop([f EXCEPT
                  !.pc = "ns_resolve",
                  !.nsID = 0,
                  !.pending = Tail(f.pending),
                  !.found = f.found \o resolveNameserverRecursively(auth, f.nsID, ret, reply)])
    /\ ret' = NoRet
    /\ nsLog' = NoQuery
    /\ UNCHANGED <<net, roots, serving, cache, cacheRest, serverVars, codecVars, lifeVars>>

\* resolveRecursively, lines 399-409, with forwardToResolver: after a failed
\* walk the query goes to the upstream forwarder, whose reply is decoded and
\* returned as it is
ForwardFallback(reply) ==
    /\ At("fallback")
    /\ ret' = IF ~reply.ok \/ UnmarshalFails(reply.pkt)
              THEN [kind |-> "err", msg |-> ZeroMessage]
              ELSE [kind |-> "msg", msg |-> UnmarshalBinary(reply.pkt)]
    /\ stack' = Pop
    /\ nsLog' = NoQuery
    /\ UNCHANGED <<net, roots, serving, cache, cacheRest, serverVars, codecVars, lifeVars>>

\* resolveWithNameservers asks a nameserver, which answers as it likes
WalkQuery ==
    /\ stack # <<>>
    /\ \E id \in QueryIDs :
          \E reply \in NsReplies(id, Top.domain, Top.delegationCount) :
             \E streamReply \in (IF reply.ok /\ reply.pkt.hdr.TC
                                  THEN StreamReplies(id, Top.domain) ELSE {Lost}) :
                AskNameserver(id, reply, streamReply)

\* resolveRecursively falls back to the forwarder, which answers as it likes
Fallback ==
    /\ stack # <<>>
    /\ \E reply \in ForwarderReplies(Top.id, Top.domain) : ForwardFallback(reply)

NextWalk ==
    \/ Bootstrap
    \/ \E d \in Names, id \in FrameIDs : WalkStart(d, id)
    \/ ResolveStart
    \/ WalkBaseCase
    \/ WalkQuery
    \/ \E id \in FrameIDs : HandleCNAMEs(id)
    \/ CnameReturn
    \/ Classify
    \/ Fallback

(***************************************************************************)
(* ------------------------  THE WIRE CODEC  ----------------------------- *)
(* internal/utils (names), internal/header, Message.UnmarshalBinary, the   *)
(* RDATA accessors of internal/RR and the length prefix of the stream      *)
(* transports, as functions applied to inputs drawn from bounded sets.     *)
(***************************************************************************)
NoCall == [name |-> "none"]

\* no function of the codec was called yet
CodecBlank == fn = "none" /\ arg = NoCall /\ out = NoCall /\ dec = NoCall

\* ---- internal/utils: domain names ----
\* a string is the sequence of its bytes; Dot is '.', Space is ' '
Dot == 46
Space == 32

MaxLabelLength == 63
MaxDomainNameLength == 255
maxPointers == 10

\* the largest offset a pointer's 14 bits hold (0b0011111111111111)
MaxPointerOffset == 16383

\* strings.TrimSpace
RECURSIVE TrimSpace(_)
TrimSpace(s) ==
    IF s # <<>> /\ s[1] = Space THEN TrimSpace(Tail(s))
    ELSE IF s # <<>> /\ s[Len(s)] = Space THEN TrimSpace(SubSeq(s, 1, Len(s) - 1))
    ELSE s

\* strings.Split(s, ".")
RECURSIVE Split(_)
Split(s) ==
    IF \A i \in 1..Len(s) : s[i] # Dot THEN <<s>>
    ELSE LET i == CHOOSE k \in 1..Len(s) : s[k] = Dot /\ \A j \in 1..(k - 1) : s[j] # Dot
         IN  <<SubSeq(s, 1, i - 1)>> \o Split(SubSeq(s, i + 1, Len(s)))

\* strings.Join(labels, ".")
RECURSIVE Join(_)
Join(labels) ==
    IF labels = <<>> THEN <<>>
    ELSE IF Len(labels) = 1 THEN labels[1]
    ELSE labels[1] \o <<Dot>> \o Join(Tail(labels))

\* what a function of the codec returns when it returns an error
Failure == [err |-> TRUE, bytes |-> <<>>, name |-> <<>>, n |-> 0]

Encoded(bytes) == [err |-> FALSE, bytes |-> bytes, name |-> <<>>, n |-> Len(bytes)]

Decoded(name, n) == [err |-> FALSE, bytes |-> <<>>, name |-> name, n |-> n]

\* the call did not return: an index or slice expression outside its slice
\* is a run-time panic
Panicked == [err |-> TRUE, bytes |-> <<>>, name |-> <<>>, n |-> -1]

\* ValidateName returns an error
ValidateNameFails(name) ==
    \/ Len(name) = 0
    \/ Len(name) > MaxDomainNameLength
    \/ \E i \in 1..Len(Split(name)) : Len(TrimSpace(Split(name)[i])) > MaxLabelLength

\* the loop of EncodeDomainNameToLabel: a length byte and the bytes of every
\* label that is not empty
RECURSIVE EncodeLabels(_)
EncodeLabels(labels) ==
    IF labels = <<>> THEN <<>>
    ELSE LET trimmedLabel == TrimSpace(Head(labels))
         IN  (IF Len(trimmedLabel) > 0
                 THEN <<Len(trimmedLabel) % 256>> \o trimmedLabel
                 ELSE <<>>) \o EncodeLabels(Tail(labels))

EncodeDomainNameToLabel(name) ==
    IF ValidateNameFails(name) THEN Failure
    ELSE Encoded(EncodeLabels(Split(TrimSpace(name))) \o <<0>>)

\* findNameMatch: the first offset at which fullPacket holds the uncompressed
\* encoding of name, or -1; the scan stops len(nameBytes) short of the end
findNameMatch(name, fullPacket) ==
    IF Len(name) = 0 \/ EncodeDomainNameToLabel(name).err THEN -1
    ELSE LET nameBytes == EncodeDomainNameToLabel(name).bytes
             hits == { i \in 0..(Len(fullPacket) - Len(nameBytes) - 1) :
                         SubSeq(fullPacket, i + 1, i + Len(nameBytes)) = nameBytes }
         IN  IF hits = {} THEN -1 ELSE CHOOSE i \in hits : \A j \in hits : i <= j

\* createPointer: nil for an offset that does not fit 14 bits
createPointer(offset) ==
    IF offset > MaxPointerOffset THEN <<>>
    ELSE <<192 + ((offset \div 256) % 256), offset % 256>>

\* the loop of MarshalName from labels[i] on: the first suffix found in
\* fullPacket is replaced by createPointer's bytes and the function returns;
\* the terminating zero is written only when the loop runs to its end
RECURSIVE MarshalLabels(_, _, _)
MarshalLabels(labels, i, fullPacket) ==
    IF i > Len(labels) THEN <<0>>
    ELSE LET trimmedLabel == TrimSpace(labels[i])
             matchOffset == findNameMatch(Join(SubSeq(labels, i, Len(labels))), fullPacket)
         IN  IF Len(trimmedLabel) = 0 THEN MarshalLabels(labels, i + 1, fullPacket)
             ELSE IF matchOffset # -1 THEN createPointer(matchOffset)
             ELSE <<Len(trimmedLabel) % 256>> \o trimmedLabel
                      \o MarshalLabels(labels, i + 1, fullPacket)

MarshalName(name, fullPacket, offset) ==
    IF ValidateNameFails(name) THEN Failure
    ELSE IF name = <<Dot>> THEN Encoded(<<0>>)
    ELSE Encoded(MarshalLabels(Split(TrimSpace(name)), 1, fullPacket))

\* the locals of UnmarshalName before its loop; inFull says that
\* currentBuffer is fullPacket
UnmarshalNameEnter(buffer, offset) ==
    [pc |-> IF offset < 0 \/ offset >= Len(buffer) THEN "error" ELSE "loop",
     name |-> <<>>, offset |-> offset, startOffset |-> offset,
     bytesConsumed |-> 0, pointersFollowed |-> 0, jumped |-> FALSE,
     inFull |-> FALSE]

\* pointersFollowed > maxPointers, with no budget check at all
TooManyPointersNever(pointersFollowed) == FALSE

\* pointersFollowed > maxPointers
TooManyPointers(pointersFollowed) == pointersFollowed > maxPointers

\* a pointer's second byte that would be read wherever the first stands
IncompletePointerNever(offset, currentBuffer) == FALSE

\* UnmarshalName, line 168: offset+1 >= len(currentBuffer)
IncompletePointer(offset, currentBuffer) == offset + 1 >= Len(currentBuffer)

\* UnmarshalName, line 211: offset+labelLength > len(currentBuffer), offset
\* being the one after the length byte
LabelExceeds(offset, labelLength, currentBuffer) == offset + labelLength > Len(currentBuffer)

\* the indexes of currentBuffer that one pass of the loop reads: the byte at
\* offset (line 165), a pointer's second byte (line 180), a label's bytes
\* (line 218)
PassReads(st, currentBuffer) ==
    IF st.offset < 0 \/ st.offset >= Len(currentBuffer) THEN {}
    ELSE LET currentByte == currentBuffer[st.offset + 1]
         IN  IF currentByte >= 192
                 THEN IF IncompletePointer(st.offset, currentBuffer) THEN { st.offset }
                      ELSE { st.offset, st.offset + 1 }
             ELSE IF currentByte > MaxLabelLength \/ currentByte = 0 THEN { st.offset }
             ELSE IF LabelExceeds(st.offset + 1, currentByte, currentBuffer) THEN { st.offset }
             ELSE st.offset .. (st.offset + currentByte)

\* one pass of the loop of UnmarshalName when currentByte is a pointer
FollowPointer(st, currentBuffer, fullPacket) ==
    LET pointerOffset == (currentBuffer[st.offset + 1] % 64) * 256
                             + currentBuffer[st.offset + 2]
        marked == IF st.jumped THEN st
                  ELSE [st EXCEPT !.bytesConsumed = st.offset - st.startOffset + 2,
                                  !.jumped = TRUE]
    IN  IF IncompletePointer(st.offset, currentBuffer) THEN [st EXCEPT !.pc = "error"]
        ELSE IF pointerOffset >= Len(fullPacket) THEN [marked EXCEPT !.pc = "error"]
        ELSE [marked EXCEPT !.inFull = TRUE,
                            !.offset = pointerOffset,
                            !.pointersFollowed = @ + 1,
                            !.pc = IF TooManyPointers(st.pointersFollowed + 1)
                                      THEN "error" ELSE "loop"]

\* one pass of the loop when currentByte is a label's length
ReadLabel(st, currentBuffer) ==
    LET labelLength == currentBuffer[st.offset + 1]
        offset == st.offset + 1
        after == offset + labelLength
    IN  IF labelLength > MaxLabelLength THEN [st EXCEPT !.pc = "error"]
        ELSE IF labelLength = 0
            THEN [st EXCEPT !.pc = "done",
                            !.offset = offset,
                            !.bytesConsumed = IF st.jumped THEN @ ELSE offset - st.startOffset]
        ELSE IF LabelExceeds(offset, labelLength, currentBuffer)
            THEN [st EXCEPT !.pc = "error", !.offset = offset]
        ELSE [st EXCEPT !.name = (IF @ # <<>> THEN @ \o <<Dot>> ELSE @)
                                     \o SubSeq(currentBuffer, offset + 1, after),
                        !.offset = after,
                        !.bytesConsumed = IF st.jumped THEN @ ELSE after - st.startOffset]

\* one pass of the loop of UnmarshalName
UnmarshalNameStep(st, buffer, fullPacket) ==
    LET currentBuffer == IF st.inFull THEN fullPacket ELSE buffer
    IN  IF st.offset < 0 \/ st.offset >= Len(currentBuffer) THEN [st EXCEPT !.pc = "error"]
        ELSE IF \E i \in PassReads(st, currentBuffer) : i < 0 \/ i >= Len(currentBuffer)
            THEN [st EXCEPT !.pc = "panic"]
        ELSE IF currentBuffer[st.offset + 1] >= 192
            THEN FollowPointer(st, currentBuffer, fullPacket)
        ELSE ReadLabel(st, currentBuffer)

\* what UnmarshalName would return without its root case
UnmarshalNameResultAsRead(st, buffer) ==
    IF st.pc = "panic" THEN Panicked
    ELSE IF st.pc = "error" THEN Failure ELSE Decoded(st.name, st.bytesConsumed)

\* what UnmarshalName returns once its loop is left
UnmarshalNameResult(st, buffer) ==
    IF st.pc = "panic" THEN Panicked
    ELSE IF st.pc = "error" THEN Failure
    ELSE IF st.name = <<>> /\ st.bytesConsumed = 1 /\ buffer[st.startOffset + 1] = 0
        THEN Decoded(<<Dot>>, 1)
    ELSE Decoded(st.name, st.bytesConsumed)

RECURSIVE UnmarshalNameLoop(_, _, _)
UnmarshalNameLoop(st, buffer, fullPacket) ==
    IF st.pc # "loop" THEN st
    ELSE UnmarshalNameLoop(UnmarshalNameStep(st, buffer, fullPacket), buffer, fullPacket)

UnmarshalName(buffer, offset, fullPacket) ==
    UnmarshalNameResult(UnmarshalNameLoop(UnmarshalNameEnter(buffer, offset), buffer, fullPacket),
                        buffer)

\* ---- the inputs of the name decoder ----
\* what a packet is put together from: the root, the label "a", pointers to
\* the offsets 0, 2 and 3, a length byte over 63 and half a pointer
Pieces == { <<0>>, <<1, 97>>, <<192, 0>>, <<192, 2>>, <<192, 3>>, <<64>>, <<192>> }

MaxPieces == 4

LoopPieces == 3

RECURSIVE PacketsOf(_)
PacketsOf(k) ==
    IF k = 0 THEN { <<>> }
    ELSE PacketsOf(k - 1) \cup { p \o q : p \in PacketsOf(k - 1), q \in Pieces }

\* the call UnmarshalName(buffer, offset, fullPacket) of a caller that hands
\* over the whole packet, or the slice of it that starts at the name
NameCall(fullPacket, at, sliced) ==
    [name |-> "UnmarshalName",
     buffer |-> IF sliced THEN Drop(fullPacket, at) ELSE fullPacket,
     offset |-> IF sliced THEN 0 ELSE at,
     fullPacket |-> fullPacket]

NameCalls(pieces) ==
    { NameCall(p, at, sliced) : p \in PacketsOf(pieces) \ { <<>> }, at \in 0..3, sliced \in BOOLEAN }

Call(f, a, o) ==
    /\ fn = "none"
    /\ fn' = f
    /\ arg' = a
    /\ out' = o
    /\ UNCHANGED <<dec, cacheVars, serverVars, walkVars, lifeVars>>

\* utils.UnmarshalName, called and run to its return
CallUnmarshalName ==
    /\ fn = "none"
    /\ \E a \in NameCalls(MaxPieces) :
        Call("UnmarshalName", a, UnmarshalName(a.buffer, a.offset, a.fullPacket))

\* utils.UnmarshalName is entered
EnterUnmarshalName ==
    /\ fn = "none"
    /\ \E a \in NameCalls(LoopPieces) :
        /\ arg' = a
        /\ dec' = UnmarshalNameEnter(a.buffer, a.offset)
    /\ fn' = "UnmarshalName"
    /\ UNCHANGED <<out, cacheVars, serverVars, walkVars, lifeVars>>

\* one pass of its loop
StepUnmarshalName ==
    /\ fn = "UnmarshalName"
    /\ out = NoCall
    /\ dec # NoCall
    /\ dec.pc = "loop"
    /\ dec' = UnmarshalNameStep(dec, arg.buffer, arg.fullPacket)
    /\ UNCHANGED <<fn, arg, out, cacheVars, serverVars, walkVars, lifeVars>>

\* it returns
ReturnUnmarshalName ==
    /\ fn = "UnmarshalName"
    /\ out = NoCall
    /\ dec # NoCall
    /\ dec.pc # "loop"
    /\ out' = UnmarshalNameResult(dec, arg.buffer)
    /\ UNCHANGED <<fn, arg, dec, cacheVars, serverVars, walkVars, lifeVars>>

\* ---- the inputs of the name encoders ----
\* a label of k bytes c
Fill(k, c) == [i \in 1..k |-> c]

\* the labels names are put together from: "a", "b", a label of the
\* greatest length and one a byte shorter, and " a", which begins with
\* white space
Labels ==
    { <<97>>, <<98>>, Fill(MaxLabelLength, 97), Fill(MaxLabelLength - 1, 98), <<Space, 97>> }

MaxLabels == 4

RECURSIVE LabelSeqs(_, _)
LabelSeqs(labels, k) ==
    IF k = 0 THEN { <<>> }
    ELSE LabelSeqs(labels, k - 1)
             \cup { Append(ls, l) : ls \in LabelSeqs(labels, k - 1), l \in labels }

\* the texts of the names of up to k labels, written with and without the
\* trailing dot, and the root
NamesOf(labels, k) ==
    { Join(ls) : ls \in LabelSeqs(labels, k) \ { <<>> } }
        \cup { Join(ls) \o <<Dot>> : ls \in LabelSeqs(labels, k) \ { <<>> } }
        \cup { <<Dot>> }

\* a packet written so far: pad bytes 0xFF and then tail
PacketOf(pad, tail) == [i \in 1..pad |-> 255] \o tail

\* what stands at the end of the packets written so far: nothing, the name
\* "a", the name "b.a", and "a" as the packet's very last bytes
Tails == { <<>>, <<1, 97, 0, 7>>, <<7, 1, 98, 1, 97, 0, 7>>, <<1, 97, 0>> }

\* utils.MarshalName(name, fullPacket, len(fullPacket)), as RR.SetRDATAToMXRecord calls it
CallMarshalName ==
    /\ fn = "none"
    /\ \E n \in NamesOf({ <<97>>, <<98>> }, 2), pad \in { 0, MaxPointerOffset + 1 }, tail \in Tails :
        Call("MarshalName",
             [name |-> "MarshalName", n |-> n, pad |-> pad, tail |-> tail],
             MarshalName(n, PacketOf(pad, tail), pad + Len(tail)))

\* utils.EncodeDomainNameToLabel(name)
CallEncodeDomainNameToLabel ==
    /\ fn = "none"
    /\ \E n \in NamesOf(Labels, MaxLabels) :
        Call("EncodeDomainNameToLabel",
             [name |-> "EncodeDomainNameToLabel", n |-> n],
             EncodeDomainNameToLabel(n))

\* ---- internal/header: the 12 bytes of a header ----
\* binary.BigEndian.PutUint16 and Uint16
PutUint16(v) == <<(v \div 256) % 256, v % 256>>

Uint16(b) == b[1] * 256 + b[2]

\* b & mask != 0, b | mask and b &^ mask for a mask of one bit
HasBit(b, mask) == (b \div mask) % 2 = 1

WithBit(b, mask, on) ==
    IF on THEN (IF HasBit(b, mask) THEN b ELSE b + mask)
    ELSE (IF HasBit(b, mask) THEN b - mask ELSE b)

\* &Header{}: ID, Flags and the four counts, two bytes each
NewHeader ==
    [ID |-> <<0, 0>>, Flags |-> <<0, 0>>, QDCOUNT |-> <<0, 0>>,
     ANCOUNT |-> <<0, 0>>, NSCOUNT |-> <<0, 0>>, ARCOUNT |-> <<0, 0>>]

IsResponse(h) == HasBit(h.Flags[1], 128)

SetQRFlag(h, isResponse) == [h EXCEPT !.Flags[1] = WithBit(@, 128, isResponse)]

\* (Flags[0] >> 3) & 0b00001111
GetOpcode(h) == (h.Flags[1] \div 8) % 16

\* (Flags[0] & 0b10000111) | ((opcode & 0b00001111) << 3)
SetOpcode(h, opcode) ==
    [h EXCEPT !.Flags[1] = (@ - ((@ \div 8) % 16) * 8) + (opcode % 16) * 8]

IsAA(h) == HasBit(h.Flags[1], 4)

SetAA(h, isAA) == [h EXCEPT !.Flags[1] = WithBit(@, 4, isAA)]

IsTC(h) == HasBit(h.Flags[1], 2)

SetTCBit(h, isTruncated) == [h EXCEPT !.Flags[1] = WithBit(@, 2, isTruncated)]

IsRD(h) == HasBit(h.Flags[1], 1)

SetRD(h, recursionDesired) == [h EXCEPT !.Flags[1] = WithBit(@, 1, recursionDesired)]

IsRA(h) == HasBit(h.Flags[2], 128)

SetRA(h, recursionAvailable) == [h EXCEPT !.Flags[2] = WithBit(@, 128, recursionAvailable)]

\* (Flags[1] >> 4) & 0b00000111
GetZ(h) == (h.Flags[2] \div 16) % 8

\* (Flags[1] & 0b10001111) | ((z & 0b00000111) << 4)
SetZ(h, z) == [h EXCEPT !.Flags[2] = (@ - ((@ \div 16) % 8) * 16) + (z % 8) * 16]

GetRCODE(h) == h.Flags[2] % 16

\* (Flags[1] & 0b11110000) | (rcode & 0b00001111)
SetRCODE(h, rcode) == [h EXCEPT !.Flags[2] = (@ - (@ % 16)) + (rcode % 16)]

GetQDCOUNT(h) == Uint16(h.QDCOUNT)

SetQDCOUNT(h, qdcount) == [h EXCEPT !.QDCOUNT = PutUint16(qdcount)]

GetANCOUNT(h) == Uint16(h.ANCOUNT)

SetANCOUNT(h, ancount) == [h EXCEPT !.ANCOUNT = PutUint16(ancount)]

GetNSCOUNT(h) == Uint16(h.NSCOUNT)

SetNSCOUNT(h, nscount) == [h EXCEPT !.NSCOUNT = PutUint16(nscount)]

GetARCOUNT(h) == Uint16(h.ARCOUNT)

SetARCOUNT(h, arcount) == [h EXCEPT !.ARCOUNT = PutUint16(arcount)]

\* Header.Marshal with the authority count written before the answer count
HeaderMarshalSwapped(h) ==
    h.ID \o h.Flags \o PutUint16(GetQDCOUNT(h)) \o PutUint16(GetNSCOUNT(h))
         \o PutUint16(GetANCOUNT(h)) \o PutUint16(GetARCOUNT(h))

\* Header.Marshal: the 12 bytes
HeaderMarshal(h) ==
    h.ID \o h.Flags \o PutUint16(GetQDCOUNT(h)) \o PutUint16(GetANCOUNT(h))
         \o PutUint16(GetNSCOUNT(h)) \o PutUint16(GetARCOUNT(h))

\* header.Unmarshal: an error for fewer than 12 bytes
HeaderUnmarshal(data) ==
    IF Len(data) < HeaderSize THEN [err |-> TRUE, h |-> NewHeader]
    ELSE [err |-> FALSE,
          h |-> SetARCOUNT(SetNSCOUNT(SetANCOUNT(SetQDCOUNT(
                    [NewHeader EXCEPT !.ID = SubSeq(data, 1, 2), !.Flags = SubSeq(data, 3, 4)],
                    Uint16(SubSeq(data, 5, 6))), Uint16(SubSeq(data, 7, 8))),
                    Uint16(SubSeq(data, 9, 10))), Uint16(SubSeq(data, 11, 12)))]

\* the header a caller builds with the setters from the values f
BuildHeader(f) ==
    SetARCOUNT(SetNSCOUNT(SetANCOUNT(SetQDCOUNT(
        SetRCODE(SetZ(SetRA(SetRD(SetTCBit(SetAA(SetOpcode(SetQRFlag(
            [NewHeader EXCEPT !.ID = f.ID], f.QR), f.OPCODE), f.AA), f.TC), f.RD), f.RA),
            f.Z), f.RCODE),
        f.counts[1]), f.counts[2]), f.counts[3]), f.counts[4])

\* the values of the fields, each from the ends of its range
HeaderFields ==
    [name : {"Header.Marshal"},
     ID : { <<0, 0>>, <<1, 2>>, <<255, 255>> },
     QR : BOOLEAN, AA : BOOLEAN, TC : BOOLEAN, RD : BOOLEAN, RA : BOOLEAN,
     OPCODE : {0, 2, 15}, Z : {0, 7}, RCODE : {0, 3, 15},
     counts : { <<0, 0, 0, 0>>, <<1, 2, 3, 4>>, <<65535, 256, 255, 258>> }]

\* h.Marshal() of a header built with the setters, and header.Unmarshal of
\* the bytes
CallHeaderMarshal ==
    /\ fn = "none"
    /\ \E f \in HeaderFields :
        Call("Header.Marshal", f,
             [name |-> "Header.Marshal",
              err |-> FALSE,
              bytes |-> HeaderMarshal(BuildHeader(f)),
              back |-> HeaderUnmarshal(HeaderMarshal(BuildHeader(f)))])

\* ---- Message.UnmarshalBinary on buffers that hold fewer or more questions
\* ---- and records than the header announces ----
MaxCount == 2

\* the buffers: a header whose four counts are up to MaxCount each, then nq
\* questions, no more than announced, and nr records, the buffer ending
\* after the last of them
BuffersOf(c) ==
    { [hdr |-> [ZeroHeader EXCEPT !.ID = 1, !.QDCOUNT = c[1], !.ANCOUNT = c[2],
                                  !.NSCOUNT = c[3], !.ARCOUNT = c[4]],
       qs |-> [i \in 1..nq |-> Question(QName, TypeA)],
       an |-> [i \in 1..nr |-> Record(QName, TypeA, 60, i, 16)],
       ns |-> <<>>,
       ar |-> <<>>] : nq \in 0..c[1], nr \in 0..(MaxCount + 1) }

Buffers ==
    UNION { BuffersOf(c) :
              c \in (0..MaxCount) \X (0..MaxCount) \X (0..MaxCount) \X (0..MaxCount) }

\* msg.UnmarshalBinary(buf)
CallUnmarshalBinary ==
    /\ fn = "none"
    /\ \E b \in Buffers :
        Call("UnmarshalBinary",
             [name |-> "UnmarshalBinary", buf |-> b],
             [name |-> "UnmarshalBinary", err |-> UnmarshalFails(b), msg |-> UnmarshalBinary(b)])

\* ---- the length prefix of the stream transports ----
MaxUint16 == 65535

\* utils.WouldOverflowUint16 and utils.WouldOverflowUint32
WouldOverflowUint16(value) == value < 0 \/ value > MaxUint16

WouldOverflowUint32(value) == value < 0 \/ value > MaxUint32

\* conn.Write(append(lenBytes, payload...)): the two bytes of the prefix and
\* the number of payload bytes that follow them
Written(lenBytes, payload) == [name |-> "Write", written |-> TRUE, prefix |-> lenBytes, payload |-> payload]

\* the function returned without a Write
NotWritten == [name |-> "Write", written |-> FALSE, prefix |-> <<0, 0>>, payload |-> 0]

\* handleTCPConnection, the response to the client: refused when its length
\* does not fit 16 bits
WriteResponse(len) ==
    IF WouldOverflowUint16(len) THEN NotWritten ELSE Written(PutUint16(len), len)

\* forwardToResolverTCP, the query to the upstream resolver: the length is
\* tested against 32 bits and written as uint16(queryLen)
WriteForward(len) ==
    IF WouldOverflowUint32(len) THEN NotWritten ELSE Written(PutUint16(len), len)

\* queryNameserverTCP, the query to a nameserver: uint16(len(queryData)),
\* no test
WriteQuery(len) == Written(PutUint16(len), len)

\* the lengths of the payloads: small ones, those of the datagram limit, and
\* those on both sides of the 16-bit limit
PayloadLens ==
    { 1, HeaderSize, UdpMax, UdpMax + 1, MaxUint16 - 1, MaxUint16, MaxUint16 + 1,
      MaxUint16 + 1 + HeaderSize, 2 * (MaxUint16 + 1) }

CallHandleTCPConnection ==
    /\ fn = "none"
    /\ \E len \in PayloadLens :
        Call("handleTCPConnection", [name |-> "handleTCPConnection", len |-> len],
             WriteResponse(len))

CallForwardToResolverTCP ==
    /\ fn = "none"
    /\ \E len \in PayloadLens :
        Call("forwardToResolverTCP", [name |-> "forwardToResolverTCP", len |-> len],
             WriteForward(len))

CallQueryNameserverTCP ==
    /\ fn = "none"
    /\ \E len \in PayloadLens :
        Call("queryNameserverTCP", [name |-> "queryNameserverTCP", len |-> len],
             WriteQuery(len))

\* ---- internal/RR: the accessors of the record data ----
TypePTR == 12
TypeMX == 15

\* an accessor returns an error, or a value
NoValue == [name |-> "GetRDATA", err |-> TRUE, value |-> <<>>]

Value(v) == [name |-> "GetRDATA", err |-> FALSE, value |-> v]

GetRDATAAsARecord(rr) ==
    IF rr.Type # TypeA THEN NoValue
    ELSE IF Len(rr.RDATA) # rr.RDLENGTH THEN NoValue
    ELSE IF Len(rr.RDATA) # 4 THEN NoValue
    ELSE Value(rr.RDATA)

GetRDATAAsMXRecord(rr) ==
    IF rr.Type # TypeMX THEN NoValue
    ELSE IF Len(rr.RDATA) # rr.RDLENGTH THEN NoValue
    ELSE IF Len(rr.RDATA) < 3 THEN NoValue
    ELSE IF UnmarshalName(Drop(rr.RDATA, 2), 0, rr.fullPacket).err THEN NoValue
    ELSE Value(<<Uint16(SubSeq(rr.RDATA, 1, 2)),
                 UnmarshalName(Drop(rr.RDATA, 2), 0, rr.fullPacket).name>>)

GetRDATAAsCNAMERecord(rr) ==
    IF rr.Type # TypeCNAME THEN NoValue
    ELSE IF Len(rr.RDATA) # rr.RDLENGTH THEN NoValue
    ELSE IF UnmarshalName(rr.RDATA, 0, rr.fullPacket).err THEN NoValue
    ELSE Value(UnmarshalName(rr.RDATA, 0, rr.fullPacket).name)

\* GetRDATAAsNSRecord without its test of the type
GetRDATAAsNSRecordOfAny(rr) ==
    IF Len(rr.RDATA) # rr.RDLENGTH THEN NoValue
    ELSE IF UnmarshalName(rr.RDATA, 0, rr.fullPacket).err THEN NoValue
    ELSE Value(UnmarshalName(rr.RDATA, 0, rr.fullPacket).name)

GetRDATAAsNSRecord(rr) ==
    IF rr.Type # TypeNS THEN NoValue
    ELSE IF Len(rr.RDATA) # rr.RDLENGTH THEN NoValue
    ELSE IF UnmarshalName(rr.RDATA, 0, rr.fullPacket).err THEN NoValue
    ELSE Value(UnmarshalName(rr.RDATA, 0, rr.fullPacket).name)

\* the loop of GetRDATAAsTXTRecord from offset on: the strings, or an error
\* when a length byte announces more than is left
RECURSIVE TXTStrings(_, _)
TXTStrings(rdata, offset) ==
    IF offset >= Len(rdata) THEN Value(<<>>)
    ELSE IF offset + 1 + rdata[offset + 1] > Len(rdata) THEN NoValue
    ELSE LET rest == TXTStrings(rdata, offset + 1 + rdata[offset + 1])
         IN  IF rest.err THEN NoValue
             ELSE Value(SubSeq(rdata, offset + 2, offset + 1 + rdata[offset + 1]) \o rest.value)

GetRDATAAsTXTRecord(rr) ==
    IF rr.Type # TypeTXT THEN NoValue
    ELSE IF Len(rr.RDATA) # rr.RDLENGTH THEN NoValue
    ELSE TXTStrings(rr.RDATA, 0)

GetRDATAAsPTRRecord(rr) ==
    IF rr.Type # TypePTR THEN NoValue
    ELSE IF Len(rr.RDATA) # rr.RDLENGTH THEN NoValue
    ELSE IF UnmarshalName(rr.RDATA, 0, rr.fullPacket).err THEN NoValue
    ELSE Value(UnmarshalName(rr.RDATA, 0, rr.fullPacket).name)

GetRDATAAsSOARecord(rr) ==
    LET mname == UnmarshalName(rr.RDATA, 0, rr.fullPacket)
        rname == UnmarshalName(Drop(rr.RDATA, mname.n), 0, rr.fullPacket)
        bytesRead == mname.n + rname.n
    IN  IF rr.Type # TypeSOA THEN NoValue
        ELSE IF Len(rr.RDATA) # rr.RDLENGTH THEN NoValue
        ELSE IF mname.err THEN NoValue
        ELSE IF mname.n >= Len(rr.RDATA) THEN NoValue
        ELSE IF rname.err THEN NoValue
        ELSE IF Len(rr.RDATA) - bytesRead < 20 THEN NoValue
        ELSE Value(<<mname.name, rname.name, SubSeq(rr.RDATA, bytesRead + 1, bytesRead + 20)>>)

\* the accessor for the record type u
GetRDATAAs(u, rr) ==
    CASE u = TypeA -> GetRDATAAsARecord(rr)
      [] u = TypeMX -> GetRDATAAsMXRecord(rr)
      [] u = TypeCNAME -> GetRDATAAsCNAMERecord(rr)
      [] u = TypeNS -> GetRDATAAsNSRecord(rr)
      [] u = TypeTXT -> GetRDATAAsTXTRecord(rr)
      [] u = TypePTR -> GetRDATAAsPTRRecord(rr)
      [] u = TypeSOA -> GetRDATAAsSOARecord(rr)

\* the types that have an accessor
AccessorTypes == { TypeA, TypeMX, TypeCNAME, TypeNS, TypeTXT, TypePTR, TypeSOA }

\* record data as the setters write it: an address, a preference and an
\* exchange, a name, a text, the fields of an SOA; and none at all
RData ==
    { <<192, 0, 2, 1>>, <<0, 10, 1, 97, 0>>, <<1, 97, 0>>, <<1, 97>>,
      <<1, 97, 0, 1, 98, 0>> \o Fill(20, 1), <<>> }

\* records of every type with every record data, RDLENGTH right or one more
Records ==
    { [Type |-> t, RDATA |-> rd, RDLENGTH |-> Len(rd) + more, fullPacket |-> rd] :
        t \in AccessorTypes, rd \in RData, more \in {0, 1} }

\* rr.GetRDATAAs...Record()
CallGetRDATA ==
    /\ fn = "none"
    /\ \E u \in AccessorTypes, rr \in Records :
        Call("GetRDATA", [name |-> "GetRDATA", accessor |-> u, rr |-> rr], GetRDATAAs(u, rr))

\* ---- a response relayed to the client: decoded, then encoded again ----
ClassIN == 1

\* the ten bytes of type, class, TTL and RDLENGTH
TypeClassTTLRDLENGTHSize == 10

NoRR == [err |-> TRUE, rr |-> <<>>, n |-> 0]

\* the one element of a set of one element
The(S) == CHOOSE x \in S : TRUE

\* RR.Unmarshal(data, fullPacket): the owner name is decoded, the record
\* data is copied byte for byte
RRUnmarshal(data, fullPacket) ==
    IF Len(data) < 1 THEN NoRR
    ELSE The({ LET bytesRead == name.n
                   rdlength == Uint16(SubSeq(data, bytesRead + 9, bytesRead + 10))
               IN  IF name.err THEN NoRR
                   ELSE IF Len(data) < bytesRead + TypeClassTTLRDLENGTHSize THEN NoRR
                   ELSE IF Len(data) < bytesRead + TypeClassTTLRDLENGTHSize + rdlength THEN NoRR
                   ELSE [err |-> FALSE,
                         rr |-> [Name |-> name.name,
                                 fullPacket |-> fullPacket,
                                 RDATA |-> SubSeq(data, bytesRead + TypeClassTTLRDLENGTHSize + 1,
                                                  bytesRead + TypeClassTTLRDLENGTHSize + rdlength),
                                 Type |-> Uint16(SubSeq(data, bytesRead + 1, bytesRead + 2)),
                                 Class |-> Uint16(SubSeq(data, bytesRead + 3, bytesRead + 4)),
                                 TTL |-> SubSeq(data, bytesRead + 5, bytesRead + 8),
                                 RDLENGTH |-> rdlength],
                         n |-> bytesRead + TypeClassTTLRDLENGTHSize + rdlength]
               : name \in {UnmarshalName(data, 0, fullPacket)} })

\* rr.MarshalBinary(): the owner name is encoded against an empty packet,
\* the record data is appended as it is held
RRMarshalBinary(rr) ==
    LET nameBytes == MarshalName(rr.Name, <<>>, 0)
    IN  IF nameBytes.err THEN Failure
        ELSE Encoded(nameBytes.bytes \o PutUint16(rr.Type) \o PutUint16(rr.Class)
                        \o rr.TTL \o PutUint16(rr.RDLENGTH) \o rr.RDATA)

\* question.Unmarshal(data, fullPacket)
QuestionUnmarshal(data, fullPacket) ==
    The({ IF name.err THEN NoRR
          ELSE IF Len(data) < name.n + 4 THEN NoRR
          ELSE [err |-> FALSE,
                rr |-> [Name |-> name.name,
                        Type |-> Uint16(SubSeq(data, name.n + 1, name.n + 2)),
                        Class |-> Uint16(SubSeq(data, name.n + 3, name.n + 4))],
                n |-> name.n + 4]
          : name \in {UnmarshalName(data, 0, fullPacket)} })

\* q.Marshal(): the name without compression, the type and the class
QuestionMarshal(q) ==
    LET nameBytes == EncodeDomainNameToLabel(q.Name)
    IN  IF nameBytes.err THEN Failure
        ELSE Encoded(nameBytes.bytes \o PutUint16(q.Type) \o PutUint16(q.Class))

NoSection == [err |-> TRUE, items |-> <<>>, off |-> 0]

\* Message.UnmarshalBinary, the loop over the questions
RECURSIVE ReadQuestions(_, _, _)
ReadQuestions(packet, curOffset, count) ==
    IF count = 0 THEN [err |-> FALSE, items |-> <<>>, off |-> curOffset]
    ELSE The({ IF q.err THEN NoSection
               ELSE The({ IF rest.err THEN NoSection
                          ELSE [err |-> FALSE, items |-> <<q.rr>> \o rest.items, off |-> rest.off]
                          : rest \in {ReadQuestions(packet, curOffset + q.n, count - 1)} })
               : q \in {QuestionUnmarshal(Drop(packet, curOffset), packet)} })

\* Message.UnmarshalBinary, the loop over the records of one section; it is
\* left without an error when the buffer is at its end
RECURSIVE ReadRecords(_, _, _)
ReadRecords(packet, curOffset, count) ==
    IF count = 0 \/ curOffset >= Len(packet)
        THEN [err |-> FALSE, items |-> <<>>, off |-> curOffset]
    ELSE The({ IF r.err THEN NoSection
               ELSE The({ IF rest.err THEN NoSection
                          ELSE [err |-> FALSE, items |-> <<r.rr>> \o rest.items, off |-> rest.off]
                          : rest \in {ReadRecords(packet, curOffset + r.n, count - 1)} })
               : r \in {RRUnmarshal(Drop(packet, curOffset), packet)} })

NoMessage ==
    [err |-> TRUE, Header |-> NewHeader, Questions |-> <<>>, Answers |-> <<>>,
     Authority |-> <<>>, Additional |-> <<>>]

\* msg.UnmarshalBinary(buf) on the bytes of a packet, section after section
MessageUnmarshalBinary(packet) ==
    IF Len(packet) < HeaderSize THEN NoMessage
    ELSE LET h == HeaderUnmarshal(SubSeq(packet, 1, HeaderSize)).h
         IN  The({ IF qs.err THEN NoMessage
                   ELSE The({ IF an.err THEN NoMessage
                              ELSE The({ IF ns.err THEN NoMessage
                                         ELSE The({ IF ar.err THEN NoMessage
                                                    ELSE [err |-> FALSE, Header |-> h,
                                                          Questions |-> qs.items,
                                                          Answers |-> an.items,
                                                          Authority |-> ns.items,
                                                          Additional |-> ar.items]
                                                    : ar \in {ReadRecords(packet, ns.off, GetARCOUNT(h))} })
                                         : ns \in {ReadRecords(packet, an.off, GetNSCOUNT(h))} })
                              : an \in {ReadRecords(packet, qs.off, GetANCOUNT(h))} })
                   : qs \in {ReadQuestions(packet, HeaderSize, GetQDCOUNT(h))} })

\* msg.MarshalBinary, the loop over the questions
RECURSIVE MarshalQuestions(_)
MarshalQuestions(items) ==
    IF items = <<>> THEN Encoded(<<>>)
    ELSE LET first == QuestionMarshal(Head(items))
             rest == MarshalQuestions(Tail(items))
         IN  IF first.err \/ rest.err THEN Failure ELSE Encoded(first.bytes \o rest.bytes)

\* msg.MarshalBinary, the loop over the records of one section
RECURSIVE MarshalRecords(_)
MarshalRecords(items) ==
    IF items = <<>> THEN Encoded(<<>>)
    ELSE LET first == RRMarshalBinary(Head(items))
             rest == MarshalRecords(Tail(items))
         IN  IF first.err \/ rest.err THEN Failure ELSE Encoded(first.bytes \o rest.bytes)

\* msg.MarshalBinary(): header, questions, answers, authority, additional
MessageMarshalBinary(msg) ==
    The({ IF qs.err \/ an.err \/ ns.err \/ ar.err THEN Failure
          ELSE Encoded(HeaderMarshal(msg.Header) \o qs.bytes \o an.bytes \o ns.bytes \o ar.bytes)
          : qs \in {MarshalQuestions(msg.Questions)}, an \in {MarshalRecords(msg.Answers)},
            ns \in {MarshalRecords(msg.Authority)}, ar \in {MarshalRecords(msg.Additional)} })

\* what the reader of a message gets from a record: its fields, and its
\* record data through the accessor of its type
RecordRead(rr) ==
    [Name |-> rr.Name, Type |-> rr.Type, Class |-> rr.Class, TTL |-> rr.TTL,
     data |-> IF rr.Type \in AccessorTypes THEN GetRDATAAs(rr.Type, rr)
              ELSE Value(rr.RDATA)]

RecordsRead(rrs) == [i \in 1..Len(rrs) |-> RecordRead(rrs[i])]

MessageRead(msg) ==
    [err |-> msg.err, Answers |-> RecordsRead(msg.Answers),
     Authority |-> RecordsRead(msg.Authority), Additional |-> RecordsRead(msg.Additional)]

\* handleDNSRequest, lines 220-252: the response of the upstream is decoded
\* by forwardToResolver and, when it has answers, encoded again and sent,
\* with TC set when it is longer than a datagram holds
Relay(response) ==
    LET NotSent == [name |-> "Relay", sent |-> FALSE, bytes |-> <<>>]
    IN  The({ IF responseData.err THEN NotSent
              ELSE IF ~(Len(responseData.Answers) > 0 /\ GetANCOUNT(responseData.Header) # 0)
                  THEN NotSent
              ELSE The({ IF marshalledData.err THEN NotSent
                         ELSE IF Len(marshalledData.bytes) > UdpMax
                             THEN The({ IF withTC.err THEN NotSent
                                        ELSE [name |-> "Relay", sent |-> TRUE,
                                              bytes |-> withTC.bytes]
                                        : withTC \in {MessageMarshalBinary(
                                              [responseData EXCEPT
                                                  !.Header = SetTCBit(responseData.Header, TRUE)])} })
                         ELSE [name |-> "Relay", sent |-> TRUE, bytes |-> marshalledData.bytes]
                         : marshalledData \in {MessageMarshalBinary(responseData)} })
              : responseData \in {MessageUnmarshalBinary(response)} })

\* ---- the responses of the upstream ----
RelayHeader(ancount) ==
    HeaderMarshal(SetANCOUNT(SetQDCOUNT(SetQRFlag([NewHeader EXCEPT !.ID = <<1, 2>>], TRUE), 1),
                             ancount))

\* the question a IN A, its name at offset 12
RelayQuestion == <<1, 97, 0>> \o PutUint16(TypeA) \o PutUint16(ClassIN)

RecordBytes(owner, type, rdata) ==
    owner \o PutUint16(type) \o PutUint16(ClassIN) \o <<0, 0, 0, 60>>
          \o PutUint16(Len(rdata)) \o rdata

\* the owner of a record: a pointer to the name of the question, or the name
\* written out
Owners == { <<192, HeaderSize>>, <<1, 97, 0>> }

\* the target of the CNAME: b, b.a with a pointer to the question, and the
\* name of the question by a pointer alone
Targets == { <<1, 98, 0>>, <<1, 98, 192, HeaderSize>>, <<192, HeaderSize>> }

\* where the record data of the first record begins
FirstRDATAOffset(owner) == HeaderSize + Len(RelayQuestion) + Len(owner) + TypeClassTTLRDLENGTHSize

\* responses with a CNAME record and, in some, an NS record after it whose
\* name is written out, or is a pointer to the question, or is a pointer to
\* the target of the CNAME; and a response without a record
Responses ==
    { RelayHeader(0) \o RelayQuestion }
    \cup { RelayHeader(1) \o RelayQuestion \o RecordBytes(o, TypeCNAME, t) :
              o \in Owners, t \in Targets }
    \cup UNION { { RelayHeader(2) \o RelayQuestion \o RecordBytes(o, TypeCNAME, t)
                       \o RecordBytes(<<192, HeaderSize>>, TypeNS, n) :
                      t \in Targets,
                      n \in { <<1, 99, 0>>, <<192, HeaderSize>>, <<192, FirstRDATAOffset(o)>> } } :
                  o \in Owners }

\* one response of the upstream is relayed and the client decodes what it
\* is sent
CallRelay ==
    /\ fn = "none"
    /\ \E response \in Responses :
        \E relayed \in {Relay(response)} :
            Call("Relay",
                 [name |-> "Relay", response |-> response],
                 relayed @@ [received |-> MessageRead(MessageUnmarshalBinary(response)),
                             client |-> MessageRead(MessageUnmarshalBinary(relayed.bytes))])

NextDecode ==
    \/ EnterUnmarshalName
    \/ StepUnmarshalName
    \/ ReturnUnmarshalName

NextCodec ==
    \/ CallUnmarshalName
    \/ CallMarshalName
    \/ CallEncodeDomainNameToLabel
    \/ CallHeaderMarshal
    \/ CallUnmarshalBinary
    \/ CallHandleTCPConnection
    \/ CallForwardToResolverTCP
    \/ CallQueryNameserverTCP
    \/ CallGetRDATA
    \/ CallRelay

(***************************************************************************)
(* The life of the server: New, Start, the accept loops, the handlers and   *)
(* the cleanup function that New returns                                    *)
(***************************************************************************)
\* Bound: the requests that arrive over both transports together
MaxTasks == 3

Tasks == 1..MaxTasks

\* New: nothing runs, the counter of the zero WaitGroup is 0
LifeBlank ==
    /\ wg = 0
    /\ task = [t \in Tasks |-> "none"]
    /\ life = [start |-> "new", tcp |-> "none", cleanup |-> "idle"]

\* cleanup has closed both sockets
SocketsClosed == life.cleanup = "returned"

\* Start, lines 97-112: `go s.startTCPServer()`, then the receive loop
Start ==
    /\ life.start = "new"
    /\ life' = [life EXCEPT !.start = "loop", !.tcp = "spawned"]
    /\ UNCHANGED <<wg, task, cacheVars, serverVars, walkVars, codecVars>>

\* startTCPServer, lines 159-161: the goroutine is scheduled, s.wg.Add(1),
\* and enters its accept loop; the deferred s.wg.Done() runs when the
\* function returns, and the loop has no return
StartTCPServer ==
    /\ life.tcp = "spawned"
    /\ wg' = wg + 1
    /\ life' = [life EXCEPT !.tcp = "accept"]
    /\ UNCHANGED <<task, cacheVars, serverVars, walkVars, codecVars>>

\* Start, lines 114-125: a datagram is read, s.wg.Add(1),
\* `go s.handleDNSRequest(...)`
ReadFromUDP(t) ==
    /\ life.start = "loop"
    /\ ~SocketsClosed
    /\ task[t] = "none"
    /\ wg' = wg + 1
    /\ task' = [task EXCEPT ![t] = "udp"]
    /\ UNCHANGED <<life, cacheVars, serverVars, walkVars, codecVars>>

\* startTCPServer, lines 161-170: a connection is accepted, s.wg.Add(1),
\* `go s.handleTCPConnection(conn)`
AcceptConnection(t) ==
    /\ life.tcp = "accept"
    /\ ~SocketsClosed
    /\ task[t] = "none"
    /\ wg' = wg + 1
    /\ task' = [task EXCEPT ![t] = "tcp"]
    /\ UNCHANGED <<life, cacheVars, serverVars, walkVars, codecVars>>

\* handleDNSRequest and handleTCPConnection return: the deferred s.wg.Done()
TaskDone(t) ==
    /\ task[t] \in {"udp", "tcp"}
    /\ wg' = wg - 1
    /\ task' = [task EXCEPT ![t] = "done"]
    /\ UNCHANGED <<life, cacheVars, serverVars, walkVars, codecVars>>

\* the cleanup function is called: server.wg.Wait()
CleanupCall ==
    /\ life.cleanup = "idle"
    /\ life' = [life EXCEPT !.cleanup = "waiting"]
    /\ UNCHANGED <<wg, task, cacheVars, serverVars, walkVars, codecVars>>

\* Wait returns when the counter is zero; the sockets are closed and cleanup
\* returns
CleanupReturn ==
    /\ life.cleanup = "waiting"
    /\ wg = 0
    /\ life' = [life EXCEPT !.cleanup = "returned"]
    /\ UNCHANGED <<wg, task, cacheVars, serverVars, walkVars, codecVars>>

NextLife ==
    \/ Start
    \/ StartTCPServer
    \/ \E t \in Tasks : ReadFromUDP(t)
    \/ \E t \in Tasks : AcceptConnection(t)
    \/ \E t \in Tasks : TaskDone(t)
    \/ CleanupCall
    \/ CleanupReturn

InitServerIdle == recursive = FALSE /\ ServerBlank

vars == <<cacheVars, serverVars, walkVars, codecVars, lifeVars>>

\* the state after New: the cache is empty, no handler runs, no walk runs
InitCacheOnly == InitCache /\ InitServerIdle /\ InitWalkIdle /\ CodecBlank /\ LifeBlank

InitServerOnly == InitCache /\ InitServer /\ InitWalkIdle /\ CodecBlank /\ LifeBlank

InitWalkOnly == InitCache /\ InitServerIdle /\ InitWalk /\ CodecBlank /\ LifeBlank

SpecCache == InitCacheOnly /\ [][NextCache]_vars

\* the goroutines run: periodicallyCleanup loops on its ticker for as long as
\* the process lives, a goroutine inside a critical section leaves it, and
\* sync.RWMutex hands the lock to a waiting writer (new readers queue behind
\* it, and a starved waiter is served first)
SpecCacheLive ==
    /\ InitCacheOnly
    /\ [][NextCache]_vars
    /\ SF_vars(SweepLock)
    /\ WF_vars(SweepLocked)
    /\ WF_vars(SweepDelete)
    /\ WF_vars(SweepUnlock)
    /\ \A c \in Callers :
          /\ WF_vars(PutStoreMessage(c))
          /\ WF_vars(PutStoreExpiry(c))
          /\ WF_vars(PutUnlock(c))
          /\ WF_vars(GetRead(c))
          /\ WF_vars(GetRUnlock(c))

SpecServer == InitServerOnly /\ [][NextServer]_vars

SpecWalk == InitWalkOnly /\ [][NextWalk]_vars

\* the walk among nameservers whose referrals name nameservers without glue
InitReferOnly == InitCache /\ InitServerIdle /\ net = "refer" /\ WalkBlank /\ CodecBlank /\ LifeBlank

NextRefer ==
    \/ Bootstrap
    \/ \E d \in Names, id \in FrameIDs : WalkStart(d, id)
    \/ ResolveStart
    \/ WalkBaseCase
    \/ WalkQuery
    \/ \E id \in FrameIDs : HandleCNAMEs(id)
    \/ Classify
    \/ \E id \in FrameIDs : ResolveNameserver(id)
    \/ NameserverReturn
    \/ Fallback

SpecRefer == InitReferOnly /\ [][NextRefer]_vars

InitCodecOnly == InitCache /\ InitServerIdle /\ InitWalkIdle /\ CodecBlank /\ LifeBlank

\* the functions of the codec, each applied to an input and run to its return
SpecCodec == InitCodecOnly /\ [][NextCodec]_vars

\* one call of UnmarshalName, pass by pass; the goroutine that runs it is
\* scheduled again as long as it has a step to take
SpecDecode ==
    /\ InitCodecOnly
    /\ [][NextDecode]_vars
    /\ WF_vars(StepUnmarshalName)
    /\ WF_vars(ReturnUnmarshalName)

InitLifeOnly == InitCache /\ InitServerIdle /\ InitWalkIdle /\ CodecBlank /\ LifeBlank

\* the life of the server; every goroutine that can take a step is scheduled
\* again: the handlers run to their return, startTCPServer gets to run, and
\* a Wait that can return does
SpecLife ==
    /\ InitLifeOnly
    /\ [][NextLife]_vars
    /\ WF_vars(StartTCPServer)
    /\ \A t \in Tasks : WF_vars(TaskDone(t))
    /\ WF_vars(CleanupReturn)

(***************************************************************************)
(* Properties of the cache                                                 *)
(***************************************************************************)

\* the minimum TTL over the answer records of a message that has answers
AnswerMinTTL(msg) ==
    CHOOSE t \in Range(msg.Answers) : \A u \in Range(msg.Answers) : t <= u

\* the step in which goroutine c's Get looks the key up and decides its result
GetReads(c) == cpc[c] = "get_read" /\ cpc'[c] = "get_runlock"

\* what a Get at time t has to return after the Put recorded in lg
GetAfterPut(lg, t) ==
    IF t <= lg.at + Min(AnswerMinTTL(lg.msg), 3600) THEN lg.msg ELSE NilMsg

\* C3 (as stated): after Put(k, msg) with a non-nil msg that has at least one
\* answer and minimum answer TTL T > 0, Get(k) returns msg up to and including
\* the instant T (at most 3600) seconds after the Put, and nothing later on.
C3_GetAfterAnyPut ==
    [][\A c \in Callers :
          GetReads(c) =>
            LET lg == putLog[cargs[c].key]
            IN  lg.valid => cres'[c].message = GetAfterPut(lg, now)]_vars

\* C3 (amended): the same, for a msg whose header QDCOUNT is not zero.
C3_GetAfterPut ==
    [][\A c \in Callers :
          GetReads(c) =>
            LET lg == putLog[cargs[c].key]
            IN  (lg.valid /\ lg.msg.QDCOUNT # 0)
                    => cres'[c].message = GetAfterPut(lg, now)]_vars

\* a Get has just returned the message at the very instant of its expiry
C3_Witness ==
    \E c \in Callers :
        /\ cpc[c] = "get_runlock"
        /\ cres[c].found
        /\ ~cres[c].message.isNil
        /\ cres[c].message = putLog[cargs[c].key].msg
        /\ cres[c].entry.expiresAt = now
        /\ now = putLog[cargs[c].key].at + Min(AnswerMinTTL(cres[c].message), 3600)

\* the key is being written: the message word is stored, the expiry is not yet
MidWrite(k) == \E c \in Callers : cpc[c] = "put_store2" /\ cargs[c].key = k

\* C4: the lifetime of every stored entry (expires_at minus the time of the
\* Put) is min(minimum answer TTL, 3600) seconds.
C4_EntryLifetime ==
    \A k \in DOMAIN cache :
        ~MidWrite(k) =>
            /\ lastWrite[k].valid
            /\ cache[k].expiresAt - lastWrite[k].at
                   = Min(AnswerMinTTL(cache[k].message), 3600)

\* an entry whose minimum answer TTL exceeds one hour is stored for 3600 s
C4_Witness ==
    \E k \in DOMAIN cache :
        /\ ~MidWrite(k)
        /\ AnswerMinTTL(cache[k].message) > 3600
        /\ cache[k].expiresAt - lastWrite[k].at = 3600

\* the messages C5 is about: nil, no answers, or minimum answer TTL 0
SkippedMessage(msg) ==
    \/ msg.isNil
    \/ msg.Answers = <<>>
    \/ AnswerMinTTL(msg) = 0

\* C5: no step of a Put called with a nil message, a message without answers
\* or a message whose minimum answer TTL is 0 changes the cache map.
C5_PutSkipIsNoOp ==
    [][\A c \in Callers :
          ( /\ cpc'[c] # cpc[c]
            /\ \/ cargs[c].op = "put" /\ SkippedMessage(cargs[c].msg)
               \/ cargs'[c].op = "put" /\ SkippedMessage(cargs'[c].msg) )
          => cache' = cache]_vars

\* such a Put is returning while an entry is stored under its key
C5_Witness ==
    \E c \in Callers :
        /\ cpc[c] = "put_return"
        /\ ~cargs[c].msg.isNil
        /\ cargs[c].msg.Answers # <<>>
        /\ AnswerMinTTL(cargs[c].msg) = 0
        /\ cargs[c].key \in DOMAIN cache

\* C6: a Get observes for its key either no entry or exactly the
\* (message, expires_at) pair written by the last completed Put to that key.
C6_GetSeesWholeEntry ==
    [][\A c \in Callers :
          GetReads(c) =>
            LET lw == lastWrite[cargs[c].key]
            IN  \/ ~cres'[c].found
                \/ /\ lw.valid
                   /\ cres'[c].entry =
                        [message |-> lw.message, expiresAt |-> lw.expiresAt]]_vars

\* a Get has read a stored entry while another goroutine's Put of a different
\* message to the same key is waiting for the lock
C6_Witness ==
    \E c \in Callers, d \in Callers :
        /\ c # d
        /\ cpc[c] = "get_runlock"
        /\ cres[c].found
        /\ cpc[d] = "put_lock"
        /\ cargs[d].key = cargs[c].key
        /\ cargs[d].msg # cres[c].entry.message

(***************************************************************************)
(* Properties of the dispatcher                                            *)
(***************************************************************************)

\* the four counts of an emitted header are the numbers of questions and
\* records the encoder wrote after it
CountsMatch(pkt) ==
    /\ pkt.hdr.QDCOUNT = Len(pkt.qs)
    /\ pkt.hdr.ANCOUNT = Len(pkt.an)
    /\ pkt.hdr.NSCOUNT = Len(pkt.ns)
    /\ pkt.hdr.ARCOUNT = Len(pkt.ar)

\* C2: in every message the server emits (recursive answers, forwarded
\* responses, error responses) QDCOUNT, ANCOUNT, NSCOUNT and ARCOUNT equal the
\* numbers of questions, answer, authority and additional records emitted.
C2_EmittedCountsMatch ==
    \A h \in Handlers : \A i \in 1..Len(sent[h]) : CountsMatch(sent[h][i])

\* a handler that is inside handleDNSRequest
Running(h) == hpc[h] \notin {"free", "done"}

\* C7: the request bytes of a running handler are not written by the accept
\* loop, and a message a handler writes to is not held by another running
\* handler.
C7_NoSharedMutableData ==
    [][ /\ (buf' # buf => \A h \in Handlers : ~Running(h))
        /\ \A o \in (DOMAIN heap) \cap (DOMAIN heap') :
              heap'[o] # heap[o] =>
                  Cardinality({h \in Handlers : Running(h) /\ hresp[h] = o}) <= 1 ]_vars

\* C8: when two clients' queries for the same cached question are handled
\* concurrently (each decoded by its own handler and answered from the
\* cache), the response a handler writes while the other is between its
\* cache hit and its own write carries the transaction id of its own client.
C8_OwnTransactionId ==
    [][ \A h \in Handlers :
          ( /\ sent'[h] # sent[h] /\ sent'[h] # <<>>
            /\ hhit[h] /\ hmsg[h].Header.ID = recv[h].hdr.ID
            /\ \E g \in Handlers \ {h} :
                  /\ hpc[g] \in {"check", "marshal", "settc", "marshal2"} /\ hhit[g]
                  /\ hmsg[g].Header.ID = recv[g].hdr.ID
                  /\ hmsg[g].Questions = hmsg[h].Questions )
          => sent'[h][1].hdr.ID = recv[h].hdr.ID ]_vars

(***************************************************************************)
(* Properties of the iterative walk                                        *)
(***************************************************************************)

\* C1: a message queryNameserver received from a nameserver, in a datagram
\* or over the stream retry, is handed to the walk only if its transaction id
\* is the id of the query just sent; a datagram or a stream reply with any
\* other id is rejected.
C1_TransactionIdGuard ==
    nsLog.sent =>
        /\ nsLog.used => nsLog.rid = nsLog.qid
        /\ nsLog.got # nsLog.qid => ~nsLog.used
        /\ nsLog.stream /\ nsLog.gotStream # nsLog.qid => ~nsLog.used

\* a stream reply that answers another query was read and rejected
C1_Witness ==
    /\ nsLog.sent /\ nsLog.stream
    /\ nsLog.got = nsLog.qid
    /\ nsLog.gotStream = OtherID(nsLog.qid)
    /\ ~nsLog.used

\* C9: resolveWithNameservers entered with a delegation count of
\* maxDelegations or more, or with no nameservers, fails and sends no query:
\* every query is sent below the limit to a list that is not empty, and no
\* walk follows more than maxDelegations referrals.
C9_DepthGuard ==
    /\ nsLog.sent => nsLog.depth < maxDelegations /\ nsLog.candidates > 0
    /\ \A i \in 1..Len(stack) :
          LET f == stack[i]
          IN  /\ f.delegationCount <= maxDelegations
              /\ ( \/ f.delegationCount >= maxDelegations
                   \/ (f.nameservers = <<>> /\ f.pc # "start") )
                 => f.pc \in {"walk", "fallback"}

\* a walk followed maxDelegations referrals and failed
C9_Witness ==
    \E i \in 1..Len(stack) :
        stack[i].delegationCount = maxDelegations /\ stack[i].pc = "fallback"

\* C10: within the CNAME follow of one client query no target is followed
\* twice: a CNAME whose target was followed earlier for that query ends the
\* follow.
C10_CnameTargetFollowedOnce ==
    \A i, j \in 2..Len(stack) : i < j => stack[i].domain # stack[j].domain

\* ---- C11 ----
\* the results forwardToResolver can hand to the activation on top
ForwarderResults ==
    { IF ~reply.ok \/ UnmarshalFails(reply.pkt)
      THEN [kind |-> "err", msg |-> ZeroMessage]
      ELSE [kind |-> "msg", msg |-> UnmarshalBinary(reply.pkt)] :
      reply \in ForwarderReplies(Top.id, Top.domain) }

Forwarded(h) == hpc[h] = "done" /\ hup[h] # NoReply

\* C12: on the forwarder path, on either transport, the upstream's reply is
\* relayed to the client exactly when its RCODE is NoError and its
\* transaction id is the id of the forwarded query
C12_RelayedIffValid ==
    \A h \in Handlers :
        Forwarded(h) =>
            ( sent[h] # <<>>
              <=> IsNoErrWithMatchingID(UnmarshalBinary(hup[h]), hmsg[h].Header.ID) )

\* ---- C13 ----
\* C13: a response of more than 512 bytes leaves over the datagram transport
\* with TC set in the bytes written, and over the stream transport with TC
\* clear, whatever else is served at the same time
C13_TruncationFlagByTransport ==
    \A h \in Handlers :
        ( hpc[h] = "done" /\ sent[h] # <<>> /\ WireLen(sent[h][1]) > UdpMax )
            => ( sent[h][1].hdr.TC <=> conn[h] = "udp" )

\* ---- C14 ----
\* C14: a request that decodes to no questions (QDCOUNT = 0) is answered
\* with a FormatError response
C14_NoQuestionIsFormatError ==
    \A h \in Handlers :
        ( hpc[h] \notin {"free", "decode"}
          /\ hmsg[h] # ZeroMessage /\ hmsg[h].Header.QDCOUNT = 0 )
            => \/ hpc[h] = "error" /\ hcode[h] = FormatError
               \/ hpc[h] = "done" /\ sent[h] # <<>> /\ sent[h][1].hdr.RCODE = FormatError

\* ---- C15 ----
\* C15: a handler that could not decode its request (msg stays unset) ends
\* having written a response with RCODE FormatError, on either transport
C15_UndecodableIsFormatError ==
    \A h \in Handlers :
        ( hpc[h] = "done" /\ hmsg[h] = ZeroMessage )
            => ( sent[h] # <<>> /\ sent[h][1].hdr.RCODE = FormatError )

\* ---- C16 ----
\* C16: a handler whose recursive resolution or forwarder round trip failed
\* ends having written a response with RCODE ServerFailure, on either
\* transport
C16_FailureIsServerFailure ==
    \A h \in Handlers :
        ( hpc[h] = "done" /\ hcode[h] = ServerFailure )
            => ( sent[h] # <<>> /\ sent[h][1].hdr.RCODE = ServerFailure )

\* ---- C17 ----
\* handler h has handed its request to the resolver or to the forwarder
Routed(h) ==
    hpc[h] \in {"resolve", "restamp", "walk", "fallback", "forward", "check", "marshal",
                "settc", "marshal2"}

\* C17: of a request with several questions only the first is processed:
\* the query handed to the resolver or the forwarder has exactly one
\* question and QDCOUNT = 1, and every answer in the reply is an answer to
\* that question
C17_OnlyFirstQuestion ==
    \A h \in Handlers :
        /\ Routed(h) =>
              ( Len(hmsg[h].Questions) = 1 /\ hmsg[h].Header.QDCOUNT = 1 )
        /\ ( hpc[h] = "done" /\ sent[h] # <<>> ) =>
              \A j \in 1..Len(sent[h][1].an) :
                  sent[h][1].an[j].Name = Question(QName, TypeA).Name

\* C17 witness: a request with two questions was decoded, forwarded, and
\* the upstream's answer to the first question relayed
C17_Witness ==
    \E h \in Handlers :
        /\ hpc[h] = "done"
        /\ recv[h] = TwoQuestions(h)
        /\ hup[h] # NoReply
        /\ hup[h].hdr.QDCOUNT = 1
        /\ sent[h] # <<>>
        /\ Len(sent[h][1].an) = 1

\* ---- C18 ----
\* C18: the message the cache holds under a key is the cache's own: as long
\* as no Put replaces the entry, no step changes that message, whatever is
\* done to the message that was returned to the dispatcher or to a message
\* obtained from the cache
C18_CachedEntryIsOwnCopy ==
    [][ \A k \in (DOMAIN cache) \cap (DOMAIN cache') :
            cache'[k].message = cache[k].message
                => heap'[cache[k].message] = heap[cache[k].message] ]_vars

\* ---- C19 ----
\* C19: the message resolveRecursively returns for a client's query has QR
\* and RA set and carries the id of that query, and where it was built from
\* an authoritative response it has that response's AA
C19_ReturnedHeader ==
    [][ ( Len(stack) = 1 /\ stack' = <<>> /\ ret'.kind = "msg" )
          => /\ ret'.msg.Header.QR
             /\ ret'.msg.Header.RA
             /\ ret'.msg.Header.ID = stack[1].id
             /\ stack[1].pc = "classify"
                   => ret'.msg.Header.AA = stack[1].nsResp.Header.AA
             /\ stack[1].pc = "cnames"
                   => ret'.msg.Header.AA = stack[1].response.Header.AA ]_vars

\* ---- C20 ----
\* the activation on top followed a CNAME, and resolveRecursively has just
\* handed it a valid response for the target with answers
TargetResolved ==
    /\ stack # <<>>
    /\ Top.pc = "cname_wait"
    /\ ret.kind = "msg"
    /\ IsNoErrWithMatchingID(ret.msg, Top.cnameID)
    /\ ret.msg.Answers # <<>>

SelfPointer ==
    /\ arg # NoCall
    /\ arg.buffer = <<192, 0>>
    /\ arg.fullPacket = <<192, 0>>
    /\ arg.offset = 0

\* C21: decoding a name terminates on every input: the loop of UnmarshalName
\* is always left, no more than the pointer budget (at most 16 pointers) is
\* followed, and a pointer that points to itself makes decoding fail
C21_DecodingTerminates ==
    /\ [](dec # NoCall => dec.pointersFollowed <= 16)
    /\ (dec # NoCall /\ dec.pc = "loop") ~> (out # NoCall)
    /\ [](SelfPointer /\ out # NoCall => out.err)

\* the self-pointer was followed until the budget ran out, and the call failed
C21_Witness ==
    /\ SelfPointer
    /\ out # NoCall
    /\ out.err
    /\ dec.pointersFollowed = maxPointers + 1

\* ---- C22 ----
\* the labels that stand in buffer from offset o up to the first pointer, and
\* where that pointer stands (-1 when the name has none)
RECURSIVE BeforePointer(_, _, _)
BeforePointer(buffer, o, labels) ==
    IF o >= Len(buffer) THEN [at |-> -1, labels |-> labels]
    ELSE IF buffer[o + 1] >= 192 THEN [at |-> o, labels |-> labels]
    ELSE IF buffer[o + 1] = 0 \/ o + 1 + buffer[o + 1] > Len(buffer)
        THEN [at |-> -1, labels |-> labels]
    ELSE BeforePointer(buffer, o + 1 + buffer[o + 1],
                       Append(labels, SubSeq(buffer, o + 2, o + 1 + buffer[o + 1])))

\* the text of the labels followed by the name n
LabelsThen(labels, n) ==
    IF labels = <<>> THEN n
    ELSE IF n = <<>> \/ n = <<Dot>> THEN Join(labels)
    ELSE Join(labels) \o <<Dot>> \o n

\* C22: when decoding a name reaches a compression pointer, the decoded name
\* is the labels read before the pointer followed by the name found at the
\* pointer's target, and bytes-consumed is the labels before the first
\* pointer plus 2
C22_PointerDecoding ==
    ( fn = "UnmarshalName" /\ ~out.err /\ BeforePointer(arg.buffer, arg.offset, <<>>).at # -1 )
        => LET first == BeforePointer(arg.buffer, arg.offset, <<>>)
               target == (arg.buffer[first.at + 1] % 64) * 256 + arg.buffer[first.at + 2]
               found == UnmarshalName(arg.fullPacket, target, arg.fullPacket)
           IN  /\ ~found.err
               /\ out.name = LabelsThen(first.labels, found.name)
               /\ out.n = first.at - arg.offset + 2

\* ---- C23 ----
\* the text a name decodes to: the root is ".", a trailing "." is stripped
NameText(n) ==
    IF n = <<Dot>> THEN n
    ELSE IF n[Len(n)] = Dot THEN SubSeq(n, 1, Len(n) - 1)
    ELSE n

\* C23: for every valid name n and every packet-so-far P, the bytes of
\* MarshalName(n, P, ...) appended to P decode from offset len(P) back to n,
\* also when an earlier occurrence of a suffix of n lies at 2^14 or beyond
C23_CompressedRoundTrip ==
    fn = "MarshalName"
        => LET P == PacketOf(arg.pad, arg.tail)
               extended == P \o out.bytes
               back == UnmarshalName(extended, Len(P), extended)
           IN  /\ ~out.err
               /\ ~back.err
               /\ back.name = NameText(arg.n)

\* ---- C24 ----
\* the name keeps to the limits: every label has 1 to 63 bytes and the
\* encoding without its terminator has at most 255 (a trailing "." aside)
WithinLimits(n) ==
    \/ n = <<Dot>>
    \/ /\ n # <<>>
       /\ \A i \in 1..Len(Split(NameText(n))) :
              Len(Split(NameText(n))[i]) \in 1..MaxLabelLength
       /\ Len(NameText(n)) + 1 <= MaxDomainNameLength

\* no label of the name begins or ends with white space
NoOuterSpace(n) == \A i \in 1..Len(Split(n)) : TrimSpace(Split(n)[i]) = Split(n)[i]

\* the uncompressed encoding of the call's name decodes back to the name
RoundTrip ==
    /\ ~out.err
    /\ UnmarshalName(out.bytes, 0, out.bytes) = Decoded(NameText(arg.n), Len(out.bytes))

\* C24 as stated: for every name within the label and total-length limits,
\* decoding the uncompressed encoding yields the name (a trailing "."
\* stripped, the root decoding to ".")
C24_RoundTripAnyName ==
    ( fn = "EncodeDomainNameToLabel" /\ WithinLimits(arg.n) ) => RoundTrip

\* C24, amended: the same for every name within the limits none of whose
\* labels begins or ends with white space
C24_RoundTrip ==
    ( fn = "EncodeDomainNameToLabel" /\ WithinLimits(arg.n) /\ NoOuterSpace(arg.n) ) => RoundTrip

\* a name of the greatest length, of four labels of 63 bytes, went round
C24_Witness ==
    /\ fn = "EncodeDomainNameToLabel"
    /\ WithinLimits(arg.n)
    /\ NoOuterSpace(arg.n)
    /\ Len(arg.n) = MaxDomainNameLength - 1
    /\ RoundTrip

\* ---- C25 ----
\* C25: for every header whose field values lie in their ranges, decoding
\* its 12 bytes yields a header equal to it in every field: id, QR, OPCODE,
\* AA, TC, RD, RA, Z, RCODE and the four counts
C25_HeaderRoundTrip ==
    fn = "Header.Marshal"
        => /\ Len(out.bytes) = 12
           /\ ~out.back.err
           /\ out.back.h = BuildHeader(arg)
           /\ out.back.h.ID = arg.ID
           /\ IsResponse(out.back.h) = arg.QR
           /\ GetOpcode(out.back.h) = arg.OPCODE
           /\ IsAA(out.back.h) = arg.AA
           /\ IsTC(out.back.h) = arg.TC
           /\ IsRD(out.back.h) = arg.RD
           /\ IsRA(out.back.h) = arg.RA
           /\ GetZ(out.back.h) = arg.Z
           /\ GetRCODE(out.back.h) = arg.RCODE
           /\ <<GetQDCOUNT(out.back.h), GetANCOUNT(out.back.h),
                GetNSCOUNT(out.back.h), GetARCOUNT(out.back.h)>> = arg.counts

\* a header with every flag set and every field at the end of its range but
\* for distinct counts went round
C25_Witness ==
    /\ fn = "Header.Marshal"
    /\ arg.QR /\ arg.AA /\ arg.TC /\ arg.RD /\ arg.RA
    /\ arg.OPCODE = 15 /\ arg.Z = 7 /\ arg.RCODE = 15
    /\ arg.counts = <<65535, 256, 255, 258>>
    /\ out.bytes = <<arg.ID[1], arg.ID[2], 255, 255, 255, 255, 1, 0, 0, 255, 1, 2>>
    /\ ~out.back.err

\* ---- C26 ----
\* C26: decoding a message succeeds only if every one of the QDCOUNT
\* questions, ANCOUNT answers, NSCOUNT authority records and ARCOUNT
\* additional records the header announces was decoded; a buffer that ends
\* before a section is complete makes decoding fail
C26_AllAnnouncedDecoded ==
    ( fn = "UnmarshalBinary" /\ ~out.err )
        => /\ Len(out.msg.Questions) = arg.buf.hdr.QDCOUNT
           /\ Len(out.msg.Answers) = arg.buf.hdr.ANCOUNT
           /\ Len(out.msg.Authority) = arg.buf.hdr.NSCOUNT
           /\ Len(out.msg.Additional) = arg.buf.hdr.ARCOUNT

\* ---- C27 ----
\* a message was handed to one of the three writers of a stream
StreamWrite == fn \in {"handleTCPConnection", "forwardToResolverTCP", "queryNameserverTCP"}

\* C27: every message written to a stream is preceded by a 2-byte big-endian
\* length equal to the number of payload bytes that follow, and a payload
\* too long for 16 bits is never written with a wrapped length
C27_PrefixIsExactLength ==
    ( StreamWrite /\ out.written )
        => /\ Uint16(out.prefix) = out.payload
           /\ out.payload <= MaxUint16

\* ---- C29 ----
\* C29: for every record type T, the accessor of any other type U on a
\* record of type T fails with an error instead of returning a value
C29_AccessorGuard ==
    ( fn = "GetRDATA" /\ arg.accessor # arg.rr.Type ) => out.err

\* the NS accessor was called on a CNAME record whose data is a well-formed
\* name, and failed
C29_Witness ==
    /\ fn = "GetRDATA"
    /\ arg.accessor = TypeNS
    /\ arg.rr.Type = TypeCNAME
    /\ arg.rr.RDATA = <<1, 97, 0>>
    /\ arg.rr.RDLENGTH = 3
    /\ out.err
    /\ ~GetRDATAAs(TypeCNAME, arg.rr).err


\* ---------------------------------------------------------------------
\* Properties of the walk's root list and of its failover
\* ---------------------------------------------------------------------

\* C30: a query to a candidate nameserver that fails (no reply, a reply that
\* does not decode, a reply with another id, a reply with an RCODE other
\* than NoError) leaves the walk in the same frame, at the same delegation
\* count, with the candidates that came after the one that failed.
C30_FailoverToNextCandidate ==
    [][ (nsLog'.sent /\ ~nsLog'.used) =>
          /\ Len(stack') = Len(stack)
          /\ stack'[Len(stack')].pc = "walk"
          /\ stack'[Len(stack')].nameservers = Tail(Top.nameservers)
          /\ stack'[Len(stack')].delegationCount = Top.delegationCount ]_vars

\* an authoritative NXDOMAIN arrived from a candidate and the walk stands at
\* the next one, at the same depth
C30_Witness ==
    /\ stack # <<>>
    /\ nsLog.sent
    /\ ~nsLog.used
    /\ nsLog.got = nsLog.qid
    /\ nsLog.rcode = NameError
    /\ Top.pc = "walk"
    /\ Top.nameservers # <<>>
    /\ Top.delegationCount = nsLog.depth

\* a reply with another id arrived and the walk stands at the next candidate
C30_WitnessOtherID ==
    /\ stack # <<>>
    /\ nsLog.sent
    /\ ~nsLog.used
    /\ nsLog.got = OtherID(nsLog.qid)
    /\ Top.pc = "walk"
    /\ Top.nameservers # <<>>

\* no reply arrived and the walk stands at the next candidate
C30_WitnessLost ==
    /\ stack # <<>>
    /\ nsLog.sent
    /\ ~nsLog.used
    /\ nsLog.got = 0
    /\ ~nsLog.stream
    /\ Top.pc = "walk"
    /\ Top.nameservers # <<>>


\* C28: the root list changes only in the bootstrap step, which comes before
\* the accept loops run; no step of request handling changes it; and every
\* call of resolveRecursively that goes to the nameservers starts its walk
\* with exactly that list, at delegation count 0.
C28_RootListSetOnceAtBootstrap ==
    [][ /\ (roots' # roots => ~serving /\ serving' /\ stack = <<>>)
        /\ (serving => serving' /\ roots' = roots)
        /\ (/\ stack # <<>>
            /\ Len(stack') = Len(stack)
            /\ Top.pc = "start"
            /\ stack'[Len(stack')].pc = "walk")
           => /\ stack'[Len(stack')].nameservers = roots
              /\ stack'[Len(stack')].delegationCount = 0 ]_vars

\* a walk for an alias's target, started below another walk after bootstrap,
\* stands at the whole root list
C28_Witness ==
    /\ serving
    /\ roots = rootServers
    /\ Len(stack) = 2
    /\ nsLog = NoQuery
    /\ Top.pc = "walk"
    /\ Top.nameservers = roots
    /\ Top.delegationCount = 0


\* ---------------------------------------------------------------------
\* Properties of the decoder's bounds and of the encoder's length limit
\* ---------------------------------------------------------------------

\* the first pointer of the name that starts at arg.offset
FirstPointer == BeforePointer(arg.buffer, arg.offset, <<>>)

\* the name's first pointer is one byte at the end of the buffer
LonePointerByte == FirstPointer.at # -1 /\ FirstPointer.at + 1 = Len(arg.buffer)

\* the name's first pointer is whole and its target lies beyond the packet
PointerBeyondPacket ==
    /\ FirstPointer.at # -1
    /\ FirstPointer.at + 1 < Len(arg.buffer)
    /\ (arg.buffer[FirstPointer.at + 1] % 64) * 256 + arg.buffer[FirstPointer.at + 2]
           >= Len(arg.fullPacket)

\* the name's first byte is a label's length and the label runs past the end
LabelPastEnd ==
    /\ arg.offset < Len(arg.buffer)
    /\ arg.buffer[arg.offset + 1] \in 1..MaxLabelLength
    /\ arg.offset + 1 + arg.buffer[arg.offset + 1] > Len(arg.buffer)

\* C37: for every packet, slice of it and starting offset, UnmarshalName
\* returns, with a name or with an error, and reads no index outside the
\* buffer or the packet; a pointer whose target lies beyond the packet, a
\* lone pointer byte at the end of the buffer and a label that runs past the
\* end each make it return an error.
C37_DecodingStaysInBounds ==
    fn = "UnmarshalName" =>
        /\ out # Panicked
        /\ out.err => out = Failure
        /\ (LonePointerByte \/ PointerBeyondPacket \/ LabelPastEnd) => out.err

\* a name with a label, then a pointer byte with nothing after it, failed
C37_Witness ==
    /\ fn = "UnmarshalName"
    /\ LonePointerByte
    /\ FirstPointer.labels # <<>>
    /\ out = Failure

\* a pointer beyond the packet failed
C37_WitnessBeyond ==
    /\ fn = "UnmarshalName"
    /\ PointerBeyondPacket
    /\ out = Failure

\* a label running past the end failed
C37_WitnessLabel ==
    /\ fn = "UnmarshalName"
    /\ LabelPastEnd
    /\ out = Failure


\* the length of the name's wire encoding without the terminating zero byte:
\* a length byte and the bytes of every label
WireSize(n) == Len(EncodeLabels(Split(TrimSpace(n))))

\* C39: the name encoder fails for every name whose wire encoding, the
\* terminating zero byte not counted, is longer than 255 bytes.
C39_EncoderRejectsLongNames ==
    ( fn = "EncodeDomainNameToLabel" /\ WireSize(arg.n) > MaxDomainNameLength ) => out.err


\* ---------------------------------------------------------------------
\* Properties of the cache's sweep
\* ---------------------------------------------------------------------

\* C35: the pass of cleanup over the map deletes exactly the entries whose
\* expiresAt is before the time of the sweep: what stays is unchanged, and
\* an entry that Get would return at that time stays.
C35_SweepDeletesExactlyExpired ==
    [][ (spc = "sweep" /\ spc' = "unlock") =>
          /\ DOMAIN cache' = { k \in DOMAIN cache : cache[k].expiresAt >= now }
          /\ \A k \in DOMAIN cache' : cache'[k] = cache[k]
          /\ \A k \in DOMAIN cache : GetHits(TRUE, cache[k], now) => k \in DOMAIN cache' ]_vars

\* a sweep has just passed and an entry that was past is gone
C35_Witness ==
    /\ spc = "unlock"
    /\ \E k \in Keys :
          /\ lastWrite[k].valid
          /\ lastWrite[k].expiresAt < now
          /\ k \notin DOMAIN cache

\* a sweep has just passed and an entry due at this very instant is still there
C35_WitnessKept ==
    /\ spc = "unlock"
    /\ \E k \in DOMAIN cache : cache[k].expiresAt = now

\* C36: the sweep goes on running for as long as the cache lives, so an entry
\* that is past is in the end deleted or overwritten, whether or not its key
\* is looked up again.
C36_ExpiredEntryIsSwept ==
    \A k \in Keys :
        (k \in DOMAIN cache /\ cache[k].expiresAt < now)
            ~> (k \notin DOMAIN cache \/ cache[k].expiresAt >= now)

\* an entry that was past has been deleted by the sweep while no call was
\* running
C36_Witness ==
    /\ spc = "unlock"
    /\ \A c \in Callers : cpc[c] = "idle"
    /\ \E k \in Keys :
          /\ lastWrite[k].valid
          /\ lastWrite[k].expiresAt < now
          /\ k \notin DOMAIN cache


\* ---------------------------------------------------------------------
\* Properties of the walk's retry over a stream and of its use of the cache
\* ---------------------------------------------------------------------

\* what the walk got is the stream's reply: the retry was made, the message
\* handed on is not the truncated one, and it is handed on exactly when the
\* stream's reply carries the query's id and NoError
StreamReplyUsed ==
    /\ nsLog.stream
    /\ nsLog.used <=> (nsLog.gotStream = nsLog.qid /\ nsLog.streamRcode = NoError)
    /\ nsLog.used => (~nsLog.usedTC /\ nsLog.rid = nsLog.gotStream)

UnexpiredEntryAtStart ==
    /\ stack # <<>>
    /\ Top.pc = "start"
    /\ CacheKey(Top.domain, TypeA) \in DOMAIN cache
    /\ ~(now > cache[CacheKey(Top.domain, TypeA)].expiresAt)

\* C34: when the cache holds an unexpired entry under the question's key,
\* resolveRecursively returns the cached message under the query's id in
\* its very next step: the call is over, and no query went to a nameserver
\* or to the forwarder.
C34_CacheHitSendsNoQuery ==
    [][ UnexpiredEntryAtStart =>
          /\ stack' = Pop
          /\ ret'.kind = "msg"
          /\ ret'.msg = [cache[CacheKey(Top.domain, TypeA)].message
                             EXCEPT !.Header.ID = Top.id]
          /\ ~nsLog'.sent ]_vars

\* a client's query was answered out of the cache, under its own id, which
\* is not the id of the query that filled the cache
C34_Witness ==
    /\ stack = <<>>
    /\ ret.kind = "msg"
    /\ ~nsLog.sent
    /\ nsLog.hit
    /\ \E k \in DOMAIN cache :
          /\ cache[k].message = ret.msg
          /\ cache[k].message.Answers # <<>>


\* ---------------------------------------------------------------------
\* Properties of referrals to nameservers without glue
\* ---------------------------------------------------------------------

\* C31: the resolution of one client query makes a bounded number of nested
\* entries into the resolver: no activation reaches, inside the resolution
\* of one of its own nameserver names, the very point at which it stands
\* waiting for that resolution (same name, same referral, same names left
\* to resolve), from where it would enter again, and so on without end.
C31_NestedEntriesBounded ==
    \A i, j \in 1..Len(stack) :
        i < j => ~( /\ stack[i].pc = "ns_wait"
                    /\ stack[j].pc = "ns_resolve"
                    /\ stack[j].domain = stack[i].domain
                    /\ stack[j].nsResp.Authority = stack[i].nsResp.Authority
                    /\ stack[j].pending = stack[i].pending
                    /\ stack[j].delegationCount = stack[i].delegationCount )

\* the step in which a walk goes on one delegation deeper with the
\* nameservers of a referral
FollowsReferral ==
    /\ stack # <<>>
    /\ Len(stack') = Len(stack)
    /\ Top.pc \in {"classify", "ns_resolve"}
    /\ stack'[Len(stack')].pc = "walk"
    /\ stack'[Len(stack')].delegationCount = Top.delegationCount + 1

\* C32: the candidates for depth+1 are put together name by name over the
\* NS names of the referral: a name with glue gives its glue address; a
\* name without glue that is not a suffix of the domain has been resolved by
\* an entry into the resolver, and gives what that found; a name without
\* glue that is a suffix of the domain is passed over; the list is all of
\* these together.
C32_CandidatesPerName ==
    [][ FollowsReferral =>
          LET f == Top
              names == AuthorityNames(f.nsResp)
              glue == Glue(f.nsResp)
              next == stack'[Len(stack')].nameservers
          IN  /\ \A n \in Range(names) :
                    /\ n \in Range(glue) => n \in Range(next)
                    /\ (n \notin Range(glue) /\ ~HasSuffix(f.domain, n)) => n \in f.asked
                    /\ (n \notin Range(glue) /\ HasSuffix(f.domain, n))
                          => (n \notin f.asked /\ n \notin Range(next))
              /\ next = glue \o f.found ]_vars

\* C32, amended: when any referred NS name has an IPv4 glue record the
\* candidates for depth+1 are the glue addresses alone and no name is
\* resolved; only when no referred name has glue is every name that is not
\* a suffix of the domain resolved by an entry into the resolver, the
\* suffixes being passed over, and the candidates are what those found.
C32_CandidatesGlueOrResolved ==
    [][ FollowsReferral =>
          LET f == Top
              next == stack'[Len(stack')].nameservers
          IN  IF Glue(f.nsResp) # <<>>
              THEN next = Glue(f.nsResp) /\ f.asked = {}
              ELSE /\ \A n \in Range(AuthorityNames(f.nsResp)) :
                        n \in f.asked <=> ~HasSuffix(f.domain, n)
                   /\ next = f.found
                   /\ next # <<>> ]_vars

\* a referral one of whose names has glue and another of whose names has
\* none and is not a suffix of the domain
MixedReferral(domain, nsResp) ==
    /\ Glue(nsResp) # <<>>
    /\ \E n \in Range(AuthorityNames(nsResp)) :
          n \notin Range(Glue(nsResp)) /\ ~HasSuffix(domain, n)

\* a mixed referral has been received and is about to be followed
C32_Witness ==
    /\ At("classify")
    /\ ~ExtractFails(Top.nsResp)
    /\ MixedReferral(Top.domain, Top.nsResp)
    /\ extractAuthorityNameservers(Top.domain, Top.nsResp, <<>>) = Glue(Top.nsResp)

\* the names of a referral without glue have been resolved and the walk is
\* about to go on with what they gave
C32_WitnessResolved ==
    /\ At("ns_resolve")
    /\ Top.pending = <<>>
    /\ Top.asked # {}
    /\ Top.found # <<>>
    /\ Glue(Top.nsResp) = <<>>


\* ---------------------------------------------------------------------
\* Properties of the relay of a response
\* ---------------------------------------------------------------------

\* C38: a response whose record data holds compressed names, relayed to the
\* client by decoding it and encoding it again, decodes at the client to the
\* same records, with the same names inside the record data, as the packet
\* that was received.
C38_RelayedDecodesTheSame ==
    (fn = "Relay" /\ out.sent) => out.client = out.received


\* ---------------------------------------------------------------------
\* Properties of the life of the server
\* ---------------------------------------------------------------------

\* no request is being handled
NoTaskRunning == \A t \in Tasks : task[t] \notin {"udp", "tcp"}

\* C40: the cleanup function that New returns completes once the request
\* handlers in flight have finished: its wait on the counter of the server's
\* tasks does not block for ever.
C40_CleanupCompletes ==
    (life.cleanup = "waiting" /\ NoTaskRunning) ~> (life.cleanup = "returned")

====
